---------------------------- MODULE Spec2Model ----------------------------
(***************************************************************************)
(* GameBoost AI: the host/preload PowerShell bridge, the profile store,    *)
(* the Turbo sequence, the optimizer facade and the telemetry collectors.  *)
(*                                                                         *)
(* JavaScript strings that the code inspects character by character        *)
(* (commands, profile names) are sequences of one-character strings.       *)
(* Output text that the code only concatenates is a sequence of chunks.    *)
(***************************************************************************)
EXTENDS Integers, Sequences, FiniteSets, TLC

(***************************************************************************)
(* Bounds of the model                                                     *)
(***************************************************************************)
MaxData == 2
MaxDuration == 1
MaxCalls == 1
MaxOps == 2
MaxClock == 1
MaxStarts == 3

\* invocations of useTurbo.run, page reloads, seconds passing with no timer
MaxRuns == 2
MaxReloads == 1
MaxIdle == 1

\* run is invoked and the page reloaded only within ActWindow seconds of the
\* start or the end of a countdown
ActWindow == 1

\* seconds a Turbo sequence may take from its start to its return
TurboSeconds == 3

\* Date.now() when the page is first loaded, in ms
StartTime == 100000

\* requests the renderer sends to the host once its handlers are registered
MaxRequests == 5

\* setFanSpeed is evaluated on -MaxPercent .. MaxPercent
MaxPercent == 150
MaxBoostClock == 70000
MaxInits == 2
MaxRegistrations == 2
MaxUnsubscribes == 2
ClockGrid == 5000

(***************************************************************************)
(* String helpers: String.prototype.toLowerCase / includes                 *)
(***************************************************************************)
UpperLetters ==
  <<"A", "B", "C", "D", "E", "F", "G", "H", "I", "J", "K", "L", "M",
    "N", "O", "P", "Q", "R", "S", "T", "U", "V", "W", "X", "Y", "Z">>

LowerLetters ==
  <<"a", "b", "c", "d", "e", "f", "g", "h", "i", "j", "k", "l", "m",
    "n", "o", "p", "q", "r", "s", "t", "u", "v", "w", "x", "y", "z">>

LowerChar(c) ==
  IF \E i \in 1..26 : UpperLetters[i] = c
    THEN LowerLetters[CHOOSE i \in 1..26 : UpperLetters[i] = c]
    ELSE c

ToLowerCase(s) == [i \in 1..Len(s) |-> LowerChar(s[i])]

Includes(s, d) ==
  \E i \in 1..(Len(s) - Len(d) + 1) : SubSeq(s, i, i + Len(d) - 1) = d

(***************************************************************************)
(* A command argument as it crosses the bridge.  t is the JavaScript       *)
(* typeof; a string is body followed by pad filler characters "x", so that *)
(* strings around the 1000-character limit stay representable.             *)
(***************************************************************************)
Filler == "x"

FillerRun(n) == [i \in 1..n |-> Filler]

StrCmd(body, pad) == [t |-> "string", body |-> body, pad |-> pad]

NonStr(t) == [t |-> t, body |-> <<>>, pad |-> 0]

StrLen(cmd) == Len(cmd.body) + cmd.pad

\* the longest denylist entry has 14 characters: a window of body plus 14
\* filler characters decides every substring test on the whole string
MaxPatternLen == 14

CmdText(cmd) ==
  cmd.body \o FillerRun(IF cmd.pad < MaxPatternLen THEN cmd.pad ELSE MaxPatternLen)

CommandInputs ==
  { StrCmd(<<>>, 0),
    StrCmd(<<"d", "i", "r">>, 0),
    StrCmd(<<"G", "e", "t", "-", "P", "r", "o", "c", "e", "s", "s">>, 0),
    StrCmd(<<"d", "e", "l", "t", "a">>, 0),
    StrCmd(<<"d", "e", "l", " ", "a">>, 0),
    StrCmd(<<"F", "O", "R", "M", "A", "T", " ", "c", ":">>, 0),
    StrCmd(<<"R", "e", "s", "t", "a", "r", "t", "-", "C", "o", "m", "p", "u", "t", "e", "r">>, 0),
    StrCmd(<<"n", "e", "t", " ", "u", "s", "e", "r">>, 0),
    StrCmd(<<"d", "i", "r">>, 997),
    StrCmd(<<"d", "i", "r">>, 998),
    StrCmd(<<"r", "m", " ">>, 998),
    NonStr("number"),
    NonStr("undefined"),
    NonStr("object") }

TimeoutInputs ==
  { [t |-> "number", n |-> 5000],
    [t |-> "number", n |-> 500],
    [t |-> "number", n |-> 120001],
    [t |-> "undefined", n |-> 0] }

(***************************************************************************)
(* Result objects {stdout, stderr, code, duration}                         *)
(***************************************************************************)
Result(so, se, code, duration) ==
  [stdout |-> so, stderr |-> se, code |-> code, duration |-> duration]

NoResult == Result(<<>>, <<>>, -1, -1)

ErrorResult(msg) == Result(<<>>, <<msg>>, 1, 0)

MsgNotString == "Comando deve ser uma string"
MsgLength == "Comando deve ter entre 1 e 1000 caracteres"
MsgInvalid == "Comando invalido"
MsgDenied == "Comando nao permitido por seguranca"
MsgInvokeFailed == "Error invoking remote method 'run-powershell'"
MsgTimeout == "Timeout apos timeoutMs ms"
MsgSpawnError == "error.message"
MsgSimulated == "Comando simulado (nao-Windows)"

(***************************************************************************)
(* State                                                                   *)
(***************************************************************************)
VARIABLES
  isWindows,     \* main.js: os.platform() === 'win32'
  calls,         \* number of 'run-powershell' requests issued so far
  bpc,           \* preload runPS: "idle", "invoking", "resolved", "rejected"
  bcmd,          \* preload runPS: the command argument of the current call
  bresult,       \* preload runPS: the value the call resolved to
  ipcSent,       \* preload runPS: the current call sent 'run-powershell'
  chan,          \* the 'run-powershell' message in flight (full = TRUE)
  hpc,           \* host handler: "idle", "running", "returned"
  hcmd,          \* host handler: the command it received
  hsrc,          \* host handler: "bridge" or "raw" sender
  hresult,       \* host handler: the value it returned
  hspawned,      \* host handler: a shell process was spawned for hcmd
  child,         \* runPowerShellCommand: the child process and the timer
  stdout,        \* runPowerShellCommand: let stdout
  stderr,        \* runPowerShellCommand: let stderr
  finished,      \* runPowerShellCommand: let finished
  resolveCalls,  \* runPowerShellCommand: calls of resolve()
  presult        \* runPowerShellCommand: the value the promise resolved to

ipcVars ==
  <<isWindows, calls, bpc, bcmd, bresult, ipcSent, chan, hpc, hcmd, hsrc, hresult,
    hspawned, child, stdout, stderr, finished, resolveCalls, presult>>

VARIABLES
  bridge,        \* window.backend: "none", "preload" (preload.js), "legacy" (string bridge)
  hostAdmin,     \* main.js: isAdmin, the result of the administrator probe
  variant,       \* the code base running: "main" (src/) or "restore" (temp-project-restore/)
  envInfo,       \* PowerShellManager.envInfo, the cached getEnvironmentInfo() answer
  store,         \* localStorage
  touched,       \* the localStorage keys passed to setItem/removeItem so far
  psInvoked,     \* the callers on whose behalf window.backend.runPS was invoked
  loaded,        \* useProfiles: the load-on-mount effect has run
  activeProfile, \* useProfiles: activeProfile
  applying,      \* useProfiles: applying
  ap,            \* useProfiles.applyPreset: the call in progress
  tb,            \* runTurbo: the call in progress
  w,             \* optimizer/windows.ts: the function call in progress
  ex,            \* useGameBoostOptimizer.executeOptimization: the call in progress
  dr,            \* a direct call of applyPowerPlan or restoreAll
  activeTelemetry,     \* turbo.ts: activeTelemetry
  telemetryStartTime,  \* turbo.ts: telemetryStartTime
  now,           \* Date.now()
  ops            \* number of renderer operations started so far

uiVars ==
  <<bridge, hostAdmin, variant, envInfo, store, touched, psInvoked, loaded,
    activeProfile, applying, ap, tb, w, ex, dr, activeTelemetry,
    telemetryStartTime, now, ops>>

VARIABLES
  hasWindow,     \* the global window exists (FALSE when the module runs outside a page)
  state,         \* telemetry: the module-level state object
  timers,        \* the intervals installed by setInterval and not cleared
  procs,         \* the tool processes spawned and not killed
  startPending,  \* startCollectors calls awaiting startRealCollectors
  stopPending,   \* stopCollectors calls awaiting stopRealCollectors
  starts,        \* number of startCollectors calls that got past the guard
  lastStart,     \* what the startCollectors call that completed last went through
  cb             \* state.callbacks, the onTelemetry calls made, the last tick

collVars ==
  <<hasWindow, state, timers, procs, startPending, stopPending, starts, lastStart,
    cb>>

VARIABLES
  pure           \* the pure function under evaluation: its argument and values

pureVars == <<pure>>

VARIABLES
  host           \* main.js: start-up, the administrator probe, the handlers

hostVars == <<host>>

VARIABLES
  rf             \* main.js: one 'read-file' request and its file-system calls

fileVars == <<rf>>

VARIABLES
  ut,            \* hooks.ts: the useTurbo hook, its state and its rendered closure
  ue             \* hooks.ts: the useEngine hook, its state, its init() calls and timers

hookVars == <<ut, ue>>

vars == <<ipcVars, uiVars, collVars, pureVars, hostVars, fileVars, hookVars>>

NotIpc == <<uiVars, collVars, pureVars, hostVars, fileVars, hookVars>>
NotUi == <<ipcVars, collVars, pureVars, hostVars, fileVars, hookVars>>
NotColl == <<ipcVars, uiVars, pureVars, hostVars, fileVars, hookVars>>
NotPure == <<ipcVars, uiVars, collVars, hostVars, fileVars, hookVars>>

\* what the host start-up leaves alone: all but host and isAdmin
NotFile == <<ipcVars, uiVars, collVars, pureVars, hostVars, hookVars>>

\* what useTurbo leaves alone: all but the hook, localStorage, the boost, the clock
NotHook ==
  <<ipcVars, collVars, pureVars, hostVars, fileVars, bridge, hostAdmin, variant,
    envInfo, psInvoked, loaded, activeProfile, applying, ap, tb, w, ex, dr, ops,
    ue>>

\* what useEngine leaves alone: all but the hook
NotEngine == <<ipcVars, uiVars, collVars, pureVars, hostVars, fileVars, ut>>

NotHost ==
  <<ipcVars, collVars, pureVars, fileVars, hookVars, bridge, variant, envInfo, store, touched, psInvoked,
    loaded, activeProfile, applying, ap, tb, w, ex, dr, activeTelemetry,
    telemetryStartTime, now, ops>>

\* the code of an 'exit' event that carries no number (null)
NullCode == -1

NoChild ==
  [spawned |-> FALSE, killed |-> FALSE, exited |-> FALSE, errored |-> FALSE,
   timer |-> "none", ndata |-> 0, exitCode |-> NullCode]

NoMessage == [full |-> FALSE, command |-> NonStr("undefined"), timeout |-> 0]

(***************************************************************************)
(* preload.js                                                              *)
(***************************************************************************)
PreloadMaxCommandLength == 1000
DefaultTimeout == 30000
MinTimeout == 1000
MaxTimeout == 120000

\* validateCommand: the message of the Error it throws, or "ok"
validateCommand(cmd) ==
  IF cmd.t # "string" THEN MsgNotString
  ELSE IF StrLen(cmd) = 0 \/ StrLen(cmd) > PreloadMaxCommandLength THEN MsgLength
  ELSE "ok"

\* runPS: the timeout passed on to the host
NormalizeTimeout(timeout) ==
  IF timeout.t = "undefined" THEN DefaultTimeout
  ELSE IF timeout.t # "number" \/ timeout.n < MinTimeout \/ timeout.n > MaxTimeout
    THEN DefaultTimeout
  ELSE timeout.n

\* runPS without its try/catch: an exception rejects the returned promise
runPSCatch_NoCatch(msg) == [pc |-> "rejected", result |-> NoResult]

\* runPS, catch block: every exception becomes a code-1 result
runPSCatch(msg) == [pc |-> "resolved", result |-> ErrorResult(msg)]

\* runPS, the structure guarantee applied to the host's reply
runPSWrap(result) ==
  Result(result.stdout, result.stderr, result.code, result.duration)

BridgeIdle == bpc \in {"idle", "resolved", "rejected"}

\* backend.runPS(command, timeout) up to its first await
BridgeRunPS(cmd, timeout) ==
  /\ UNCHANGED NotIpc
  /\ BridgeIdle
  /\ ~chan.full
  /\ hpc \in {"idle", "returned"}
  /\ calls < MaxCalls
  /\ calls' = calls + 1
  /\ bcmd' = cmd
  /\ LET err == validateCommand(cmd) IN
       IF err # "ok"
         THEN /\ bpc' = runPSCatch(err).pc
              /\ bresult' = runPSCatch(err).result
              /\ ipcSent' = FALSE
              /\ chan' = chan
         ELSE /\ bpc' = "invoking"
              /\ bresult' = NoResult
              /\ ipcSent' = TRUE
              /\ chan' = [full |-> TRUE, command |-> cmd,
                          timeout |-> NormalizeTimeout(timeout)]
  /\ hpc' = "idle"
  /\ hcmd' = NonStr("undefined")
  /\ hsrc' = "bridge"
  /\ hresult' = NoResult
  /\ hspawned' = FALSE
  /\ child' = NoChild
  /\ stdout' = <<>>
  /\ stderr' = <<>>
  /\ finished' = FALSE
  /\ resolveCalls' = 0
  /\ presult' = NoResult
  /\ UNCHANGED isWindows

\* ipcRenderer.invoke rejects: the catch block of runPS
BridgeInvokeFails ==
  /\ UNCHANGED NotIpc
  /\ bpc = "invoking"
  /\ chan.full
  /\ chan' = NoMessage
  /\ bpc' = runPSCatch(MsgInvokeFailed).pc
  /\ bresult' = runPSCatch(MsgInvokeFailed).result
  /\ UNCHANGED <<isWindows, calls, bcmd, ipcSent, hpc, hcmd, hsrc, hresult, hspawned,
                 child, stdout, stderr, finished, resolveCalls, presult>>

\* ipcRenderer.invoke resolves with the host handler's return value
BridgeReturn ==
  /\ UNCHANGED NotIpc
  /\ bpc = "invoking"
  /\ ~chan.full
  /\ hpc = "returned"
  /\ hsrc = "bridge"
  /\ bpc' = "resolved"
  /\ bresult' = runPSWrap(hresult)
  /\ UNCHANGED <<isWindows, calls, bcmd, ipcSent, chan, hpc, hcmd, hsrc, hresult,
                 hspawned, child, stdout, stderr, finished, resolveCalls,
                 presult>>

(***************************************************************************)
(* main.js: ipcMain.handle('run-powershell') and runPowerShellCommand      *)
(***************************************************************************)
HostMaxCommandLength == 1000
TimeoutCode == 124

dangerousCommands ==
  { <<"f", "o", "r", "m", "a", "t">>,
    <<"d", "e", "l", " ">>,
    <<"r", "m", " ">>,
    <<"r", "m", "d", "i", "r">>,
    <<"s", "h", "u", "t", "d", "o", "w", "n">>,
    <<"r", "e", "s", "t", "a", "r", "t">>,
    <<"r", "e", "b", "o", "o", "t">>,
    <<"t", "a", "s", "k", "k", "i", "l", "l", " ", "/", "f">>,
    <<"n", "e", "t", " ", "u", "s", "e", "r">>,
    <<"n", "e", "t", " ", "l", "o", "c", "a", "l", "g", "r", "o", "u", "p">> }

\* the handler's checks without toLowerCase
HostCheck_CaseSensitive(cmd) ==
  IF cmd.t # "string" \/ StrLen(cmd) > HostMaxCommandLength THEN MsgInvalid
  ELSE IF \E d \in dangerousCommands : Includes(CmdText(cmd), d) THEN MsgDenied
  ELSE "ok"

\* the handler's checks: the message of the Error it throws, or "ok"
HostCheck(cmd) ==
  IF cmd.t # "string" \/ StrLen(cmd) > HostMaxCommandLength THEN MsgInvalid
  ELSE IF \E d \in dangerousCommands : Includes(ToLowerCase(CmdText(cmd)), d)
    THEN MsgDenied
  ELSE "ok"

\* the handler for one 'run-powershell' message, up to its await
HostHandle(cmd, timeoutMs, src) ==
  /\ hpc \in {"idle", "returned"}
  /\ hcmd' = cmd
  /\ hsrc' = src
  /\ LET err == HostCheck(cmd) IN
       IF err # "ok"
         THEN /\ hpc' = "returned"
              /\ hresult' = ErrorResult(err)
              /\ hspawned' = FALSE
              /\ child' = NoChild
              /\ stdout' = <<>>
              /\ stderr' = <<>>
              /\ finished' = FALSE
              /\ resolveCalls' = 0
              /\ presult' = NoResult
         ELSE /\ hpc' = "running"
              /\ hresult' = NoResult
              /\ stdout' = <<>>
              /\ stderr' = <<>>
              /\ finished' = FALSE
              /\ IF isWindows
                   THEN /\ hspawned' = TRUE
                        /\ child' = [NoChild EXCEPT !.spawned = TRUE,
                                                    !.timer = "pending"]
                        /\ resolveCalls' = 0
                        /\ presult' = NoResult
                   ELSE /\ hspawned' = FALSE
                        /\ child' = NoChild
                        /\ resolveCalls' = 1
                        /\ presult' = Result(<<MsgSimulated>>, <<>>, 0, 100)

\* the message sent by the preload bridge arrives
HostReceive ==
  /\ UNCHANGED NotIpc
  /\ chan.full
  /\ HostHandle(chan.command, chan.timeout, "bridge")
  /\ chan' = NoMessage
  /\ UNCHANGED <<isWindows, calls, bpc, bcmd, bresult, ipcSent>>

\* a 'run-powershell' message of any other sender arrives
HostReceiveRaw(cmd, timeout) ==
  /\ UNCHANGED NotIpc
  /\ bpc # "invoking"
  /\ calls < MaxCalls
  /\ calls' = calls + 1
  /\ HostHandle(cmd, IF timeout.t = "number" THEN timeout.n ELSE DefaultTimeout, "raw")
  /\ bpc' = "idle"
  /\ bcmd' = NonStr("undefined")
  /\ bresult' = NoResult
  /\ ipcSent' = FALSE
  /\ UNCHANGED <<isWindows, chan>>

\* finish(code) without the 'if (finished) return' guard
finish_NoGuard(code, so, se, duration) ==
  /\ finished' = TRUE
  /\ presult' = Result(so, se, code, duration)
  /\ resolveCalls' = IF resolveCalls < 3 THEN resolveCalls + 1 ELSE resolveCalls

\* finish(code) with the current stdout so and stderr se
finish(code, so, se, duration) ==
  IF finished
    THEN UNCHANGED <<finished, presult, resolveCalls>>
    ELSE /\ finished' = TRUE
         /\ presult' = Result(so, se, code, duration)
         /\ resolveCalls' = resolveCalls + 1

\* child.stdout.on('data')
ChildStdout ==
  /\ UNCHANGED NotIpc
  /\ child.spawned
  /\ child.ndata < MaxData
  /\ child' = [child EXCEPT !.ndata = @ + 1]
  /\ stdout' = Append(stdout, "out")
  /\ UNCHANGED <<isWindows, calls, bpc, bcmd, bresult, ipcSent, chan, hpc, hcmd, hsrc,
                 hresult, hspawned, stderr, finished, resolveCalls, presult>>

\* child.stderr.on('data')
ChildStderr ==
  /\ UNCHANGED NotIpc
  /\ child.spawned
  /\ child.ndata < MaxData
  /\ child' = [child EXCEPT !.ndata = @ + 1]
  /\ stderr' = Append(stderr, "err")
  /\ UNCHANGED <<isWindows, calls, bpc, bcmd, bresult, ipcSent, chan, hpc, hcmd, hsrc,
                 hresult, hspawned, stdout, finished, resolveCalls, presult>>

ExitCodes == {0, 1, NullCode}

\* child.on('exit'): finish(code || 0)
ChildExit(code, duration) ==
  /\ UNCHANGED NotIpc
  /\ child.spawned
  /\ ~child.exited
  /\ child' = [child EXCEPT !.exited = TRUE, !.exitCode = code]
  /\ finish(IF code = NullCode THEN 0 ELSE code, stdout, stderr, duration)
  /\ UNCHANGED <<isWindows, calls, bpc, bcmd, bresult, ipcSent, chan, hpc, hcmd, hsrc,
                 hresult, hspawned, stdout, stderr>>

\* child.on('error')
ChildError(duration) ==
  /\ UNCHANGED NotIpc
  /\ child.spawned
  /\ ~child.errored
  /\ child' = [child EXCEPT !.errored = TRUE]
  /\ stderr' = Append(stderr, MsgSpawnError)
  /\ finish(1, stdout, stderr', duration)
  /\ UNCHANGED <<isWindows, calls, bpc, bcmd, bresult, ipcSent, chan, hpc, hcmd, hsrc,
                 hresult, hspawned, stdout>>

\* the setTimeout(..., timeoutMs) callback
TimerFire(duration) ==
  /\ UNCHANGED NotIpc
  /\ child.spawned
  /\ child.timer = "pending"
  /\ IF ~finished
       THEN /\ child' = [child EXCEPT !.timer = "fired", !.killed = TRUE]
            /\ stderr' = Append(stderr, MsgTimeout)
            /\ finish(TimeoutCode, stdout, stderr', duration)
       ELSE /\ child' = [child EXCEPT !.timer = "fired"]
            /\ UNCHANGED <<stderr, finished, presult, resolveCalls>>
  /\ UNCHANGED <<isWindows, calls, bpc, bcmd, bresult, ipcSent, chan, hpc, hcmd, hsrc,
                 hresult, hspawned, stdout>>

\* 'const result = await runPowerShellCommand(...); return result'
HostReturn ==
  /\ UNCHANGED NotIpc
  /\ hpc = "running"
  /\ resolveCalls >= 1
  /\ hpc' = "returned"
  /\ hresult' = presult
  /\ UNCHANGED <<isWindows, calls, bpc, bcmd, bresult, ipcSent, chan, hcmd, hsrc,
                 hspawned, child, stdout, stderr, finished, resolveCalls,
                 presult>>

IpcInit ==
  /\ isWindows \in BOOLEAN
  /\ calls = 0
  /\ bpc = "idle"
  /\ bcmd = NonStr("undefined")
  /\ bresult = NoResult
  /\ ipcSent = FALSE
  /\ chan = NoMessage
  /\ hpc = "idle"
  /\ hcmd = NonStr("undefined")
  /\ hsrc = "raw"
  /\ hresult = NoResult
  /\ hspawned = FALSE
  /\ child = NoChild
  /\ stdout = <<>>
  /\ stderr = <<>>
  /\ finished = FALSE
  /\ resolveCalls = 0
  /\ presult = NoResult

BridgeCallAny == \E cmd \in CommandInputs, timeout \in TimeoutInputs : BridgeRunPS(cmd, timeout)
HostReceiveRawAny == \E cmd \in CommandInputs, timeout \in TimeoutInputs : HostReceiveRaw(cmd, timeout)
ChildExitAny == \E code \in ExitCodes, d \in 0..MaxDuration : ChildExit(code, d)
ChildErrorAny == \E d \in 0..MaxDuration : ChildError(d)
TimerFireAny == \E d \in 0..MaxDuration : TimerFire(d)

IpcNext ==
  \/ BridgeCallAny
  \/ BridgeInvokeFails
  \/ BridgeReturn
  \/ HostReceive
  \/ HostReceiveRawAny
  \/ ChildStdout
  \/ ChildStderr
  \/ ChildExitAny
  \/ ChildErrorAny
  \/ TimerFireAny
  \/ HostReturn

(***************************************************************************)
(* JavaScript values and property lookup on object literals.  A value is   *)
(* a record [t, s]: t is the typeof-like tag and s the text of a string    *)
(* (or the name of the inherited member).  obj[key] on an object literal   *)
(* finds own properties first and then the members of Object.prototype.    *)
(***************************************************************************)
Str(s) == [t |-> "string", s |-> s]
Undefined == [t |-> "undefined", s |-> <<>>]
Null == [t |-> "null", s |-> <<>>]
PresetConfig(key) == [t |-> "preset", s |-> key]

Truthy(v) ==
  CASE v.t \in {"undefined", "null"} -> FALSE
    [] v.t = "string" -> v.s # <<>>
    [] OTHER -> TRUE

StripChars(s, cs) == SelectSeq(s, LAMBDA c : c \notin cs)

ObjectPrototypeNames ==
  { <<"c", "o", "n", "s", "t", "r", "u", "c", "t", "o", "r">>,
    <<"h", "a", "s", "O", "w", "n", "P", "r", "o", "p", "e", "r", "t", "y">>,
    <<"i", "s", "P", "r", "o", "t", "o", "t", "y", "p", "e", "O", "f">>,
    <<"p", "r", "o", "p", "e", "r", "t", "y", "I", "s", "E", "n", "u", "m", "e", "r", "a", "b", "l", "e">>,
    <<"t", "o", "L", "o", "c", "a", "l", "e", "S", "t", "r", "i", "n", "g">>,
    <<"t", "o", "S", "t", "r", "i", "n", "g">>,
    <<"v", "a", "l", "u", "e", "O", "f">>,
    <<"_", "_", "p", "r", "o", "t", "o", "_", "_">>,
    <<"_", "_", "d", "e", "f", "i", "n", "e", "G", "e", "t", "t", "e", "r", "_", "_">>,
    <<"_", "_", "d", "e", "f", "i", "n", "e", "S", "e", "t", "t", "e", "r", "_", "_">>,
    <<"_", "_", "l", "o", "o", "k", "u", "p", "G", "e", "t", "t", "e", "r", "_", "_">>,
    <<"_", "_", "l", "o", "o", "k", "u", "p", "S", "e", "t", "t", "e", "r", "_", "_">> }

ProtoKey == <<"_", "_", "p", "r", "o", "t", "o", "_", "_">>

\* Object.prototype.__proto__ is null's accessor and yields an object; the
\* other inherited members are functions
PrototypeMember(name) ==
  [t |-> IF name = ProtoKey THEN "object" ELSE "function", s |-> name]

NativeFunctionText == <<"f", "u", "n", "c", "t", "i", "o", "n", " ", "(", ")", " ", "{", " ", "[", "n", "a", "t", "i", "v", "e", " ", "c", "o", "d", "e", "]", " ", "}">>
ObjectText == <<"[", "o", "b", "j", "e", "c", "t", " ", "O", "b", "j", "e", "c", "t", "]">>

\* String(v), the conversion applied to a property key and by setItem
StringOf(v) ==
  CASE v.t = "string" -> v.s
    [] v.t = "function" -> NativeFunctionText
    [] v.t = "undefined" -> <<"u", "n", "d", "e", "f", "i", "n", "e", "d">>
    [] v.t = "null" -> <<"n", "u", "l", "l">>
    [] OTHER -> ObjectText

\* map[key] for an object literal whose own properties are the pairs of map
ObjectGet(map, key) ==
  LET k == StringOf(key)
  IN  IF \E p \in map : p[1] = k
        THEN Str((CHOOSE p \in map : p[1] = k)[2])
        ELSE IF k \in ObjectPrototypeNames THEN PrototypeMember(k) ELSE Undefined

(***************************************************************************)
(* presets.ts                                                              *)
(***************************************************************************)
PresetKeysMain ==
  { <<"e", "s", "p", "o", "r", "t", "s">>,
    <<"b", "a", "t", "t", "l", "e", "r", "o", "y", "a", "l", "e">>,
    <<"a", "a", "a">>,
    <<"b", "a", "t", "t", "l", "e", "f", "i", "e", "l", "d", "6">>,
    <<"s", "t", "r", "e", "a", "m", "g", "a", "m", "e">>,
    <<"s", "i", "l", "e", "n", "t">>,
    <<"a", "r", "c", "r", "i", "d", "e", "r", "s">>,
    <<"w", "a", "r", "z", "o", "n", "e">> }

PresetKeysRestore ==
  { <<"e", "s", "p", "o", "r", "t", "s">>,
    <<"b", "a", "t", "t", "l", "e", "r", "o", "y", "a", "l", "e">>,
    <<"a", "a", "a">>,
    <<"b", "a", "t", "t", "l", "e", "f", "i", "e", "l", "d", "6">>,
    <<"s", "t", "r", "e", "a", "m", "g", "a", "m", "e">>,
    <<"s", "i", "l", "e", "n", "t">> }

PresetKeys(v) == IF v = "main" THEN PresetKeysMain ELSE PresetKeysRestore

\* presets[key]
PresetsGet(keys, key) ==
  LET k == StringOf(key)
  IN  IF k \in keys THEN PresetConfig(k)
      ELSE IF k \in ObjectPrototypeNames THEN PrototypeMember(k) ELSE Undefined

NormalizeStripped == {" ", "+", "-", "_"}

\* /[\s\-]+/g of runTurbo and of the restore applyPreset
TurboStripped == {" ", "-"}

normalizeMap ==
  { <<<<"e", "s", "p", "o", "r", "t", "s">>, <<"e", "s", "p", "o", "r", "t", "s">>>>,
    <<<<"b", "a", "t", "t", "l", "e", "r", "o", "y", "a", "l", "e">>, <<"b", "a", "t", "t", "l", "e", "r", "o", "y", "a", "l", "e">>>>,
    <<<<"a", "a", "a">>, <<"a", "a", "a">>>>,
    <<<<"a", "a", "a", "g", "a", "m", "e", "s">>, <<"a", "a", "a">>>>,
    <<<<"b", "a", "t", "t", "l", "e", "f", "i", "e", "l", "d", "6">>, <<"b", "a", "t", "t", "l", "e", "f", "i", "e", "l", "d", "6">>>>,
    <<<<"b", "f", "6">>, <<"b", "a", "t", "t", "l", "e", "f", "i", "e", "l", "d", "6">>>>,
    <<<<"s", "t", "r", "e", "a", "m", "g", "a", "m", "e">>, <<"s", "t", "r", "e", "a", "m", "g", "a", "m", "e">>>>,
    <<<<"s", "t", "r", "e", "a", "m", "j", "o", "g", "o">>, <<"s", "t", "r", "e", "a", "m", "g", "a", "m", "e">>>>,
    <<<<"s", "t", "r", "e", "a", "m", "+", "g", "a", "m", "e">>, <<"s", "t", "r", "e", "a", "m", "g", "a", "m", "e">>>>,
    <<<<"s", "i", "l", "e", "n", "t">>, <<"s", "i", "l", "e", "n", "t">>>>,
    <<<<"s", "i", "l", "e", "n", "c", "i", "o", "s", "o">>, <<"s", "i", "l", "e", "n", "t">>>>,
    <<<<"a", "r", "c", "r", "i", "d", "e", "r", "s">>, <<"a", "r", "c", "r", "i", "d", "e", "r", "s">>>>,
    <<<<"a", "r", "c", "r", "a", "i", "d", "e", "r", "s">>, <<"a", "r", "c", "r", "i", "d", "e", "r", "s">>>>,
    <<<<"a", "r", "i", "d", "e", "r">>, <<"a", "r", "c", "r", "i", "d", "e", "r", "s">>>>,
    <<<<"w", "a", "r", "z", "o", "n", "e">>, <<"w", "a", "r", "z", "o", "n", "e">>>> }

normalizeProfileName(name) ==
  LET m == StripChars(ToLowerCase(name), NormalizeStripped)
      v == ObjectGet(normalizeMap, Str(m))
  IN  IF Truthy(v) THEN v ELSE Null

presetDisplayNames ==
  { <<<<"e", "s", "p", "o", "r", "t", "s">>, <<"E", "-", "S", "p", "o", "r", "t", "s">>>>,
    <<<<"b", "a", "t", "t", "l", "e", "r", "o", "y", "a", "l", "e">>, <<"B", "a", "t", "t", "l", "e", " ", "R", "o", "y", "a", "l", "e">>>>,
    <<<<"a", "a", "a">>, <<"A", "A", "A", " ", "G", "a", "m", "e", "s">>>>,
    <<<<"b", "a", "t", "t", "l", "e", "f", "i", "e", "l", "d", "6">>, <<"B", "a", "t", "t", "l", "e", "f", "i", "e", "l", "d", " ", "6">>>>,
    <<<<"s", "t", "r", "e", "a", "m", "g", "a", "m", "e">>, <<"S", "t", "r", "e", "a", "m", " ", "+", " ", "G", "a", "m", "e">>>>,
    <<<<"s", "i", "l", "e", "n", "t">>, <<"S", "i", "l", "e", "n", "c", "i", "o", "s", "o">>>>,
    <<<<"a", "r", "c", "r", "i", "d", "e", "r", "s">>, <<"A", "r", "c", " ", "R", "a", "i", "d", "e", "r", "s">>>>,
    <<<<"w", "a", "r", "z", "o", "n", "e">>, <<"W", "a", "r", "z", "o", "n", "e">>>> }

\* one evaluation of normalizeProfileName(name), and of the function again on
\* its own value when that is a string
NormalizeCall ==
  /\ pure.fn = "normalizeProfileName"
  /\ pure.pc = "arg"
  /\ pure' = [pure EXCEPT !.pc = "once", !.result = normalizeProfileName(pure.name)]
  /\ UNCHANGED NotPure

NormalizeAgain ==
  /\ pure.fn = "normalizeProfileName"
  /\ pure.pc = "once"
  /\ pure.result.t = "string"
  /\ pure' = [pure EXCEPT !.pc = "twice",
                          !.again = normalizeProfileName(pure.result.s)]
  /\ UNCHANGED NotPure

\* presets[key].fanSpeed
fanSpeed(key) ==
  CASE key = <<"e", "s", "p", "o", "r", "t", "s">> -> 90
    [] key = <<"b", "a", "t", "t", "l", "e", "r", "o", "y", "a", "l", "e">> -> 75
    [] key = <<"a", "a", "a">> -> 65
    [] key = <<"b", "a", "t", "t", "l", "e", "f", "i", "e", "l", "d", "6">> -> 100
    [] key = <<"s", "t", "r", "e", "a", "m", "g", "a", "m", "e">> -> 80
    [] key = <<"s", "i", "l", "e", "n", "t">> -> 30
    [] key = <<"a", "r", "c", "r", "i", "d", "e", "r", "s">> -> 85
    [] key = <<"w", "a", "r", "z", "o", "n", "e">> -> 95

\* setFanSpeed: the two clamps, then the percent of { ok: true, percent }
setFanSpeed_NoUpperClamp(percent) ==
  LET low == IF percent < 0 THEN 0 ELSE percent
  IN  [ok |-> TRUE, percent |-> low]

setFanSpeed(percent) ==
  LET low == IF percent < 0 THEN 0 ELSE percent
      high == IF low > 100 THEN 100 ELSE low
  IN  [ok |-> TRUE, percent |-> high]

\* one evaluation of setFanSpeed(percent)
SetFanSpeedCall ==
  /\ pure.fn = "setFanSpeed"
  /\ pure.pc = "arg"
  /\ pure' = [pure EXCEPT !.pc = "done", !.result = setFanSpeed(pure.percent)]
  /\ UNCHANGED NotPure

(***************************************************************************)
(* localStorage: a partial function from key names to strings              *)
(***************************************************************************)
ProfileKey == "gb.profile"
TurboKey_Other == "gb.lastTurbo"
TurboKey == "gb.turbo"
PrevPowerPlanKey == "gb.prevPowerPlan"

LocalStorage == [store |-> store, touched |-> touched]

getItem(ls, k) == IF k \in DOMAIN ls.store THEN Str(ls.store[k]) ELSE Null

setItem(ls, k, text) ==
  [store |-> [x \in DOMAIN ls.store \cup {k} |-> IF x = k THEN text ELSE ls.store[x]],
   touched |-> ls.touched \cup {k}]

removeItem(ls, k) ==
  [store |-> [x \in DOMAIN ls.store \ {k} |-> ls.store[x]],
   touched |-> ls.touched \cup {k}]

EmptyStore == [x \in {} |-> <<>>]

(***************************************************************************)
(* lib/powershell: PowerShellManager.getEnvironmentInfo                    *)
(***************************************************************************)
Bridges == {"none", "preload", "legacy"}

NoEnvInfo == [set |-> FALSE, isDesktop |-> FALSE, isAdmin |-> FALSE]
WebEnvInfo == [set |-> TRUE, isDesktop |-> FALSE, isAdmin |-> FALSE]

\* window.env.getInfo() of preload.js; ok = FALSE when 'get-environment' rejects
PreloadGetInfo(ok) ==
  IF ok THEN [set |-> TRUE, isDesktop |-> TRUE, isAdmin |-> hostAdmin]
        ELSE WebEnvInfo

\* the legacy bridge exposes window.env without getInfo: the call throws a
\* TypeError inside the try and the web fallback is cached
getEnvironmentInfo(ok) ==
  IF envInfo.set THEN envInfo
  ELSE IF bridge = "preload" THEN PreloadGetInfo(ok)
  ELSE WebEnvInfo

(***************************************************************************)
(* hooks.ts: useProfiles                                                   *)
(***************************************************************************)
legacyNameMap ==
  { <<<<"A", "r", "c", " ", "R", "a", "i", "d", "e", "r", "s">>, <<"a", "r", "c", "r", "i", "d", "e", "r", "s">>>>,
    <<<<"a", "r", "c", "-", "r", "a", "i", "d", "e", "r", "s">>, <<"a", "r", "c", "r", "i", "d", "e", "r", "s">>>>,
    <<<<"a", "r", "c", "_", "r", "i", "d", "e", "r", "s">>, <<"a", "r", "c", "r", "i", "d", "e", "r", "s">>>>,
    <<<<"W", "a", "r", "z", "o", "n", "e">>, <<"w", "a", "r", "z", "o", "n", "e">>>>,
    <<<<"E", "-", "S", "p", "o", "r", "t", "s">>, <<"e", "s", "p", "o", "r", "t", "s">>>>,
    <<<<"B", "a", "t", "t", "l", "e", " ", "R", "o", "y", "a", "l", "e">>, <<"b", "a", "t", "t", "l", "e", "r", "o", "y", "a", "l", "e">>>>,
    <<<<"A", "A", "A", " ", "G", "a", "m", "e", "s">>, <<"a", "a", "a">>>>,
    <<<<"B", "a", "t", "t", "l", "e", "f", "i", "e", "l", "d", " ", "6">>, <<"b", "a", "t", "t", "l", "e", "f", "i", "e", "l", "d", "6">>>>,
    <<<<"S", "t", "r", "e", "a", "m", " ", "+", " ", "G", "a", "m", "e">>, <<"s", "t", "r", "e", "a", "m", "g", "a", "m", "e">>>>,
    <<<<"S", "i", "l", "e", "n", "c", "i", "o", "s", "o">>, <<"s", "i", "l", "e", "n", "t">>>> }

\* prevStore / prevActive: localStorage and activeProfile when the call began
NoApply ==
  [pc |-> "idle", key |-> <<>>, cmds |-> 0, result |-> "none",
   prevStore |-> EmptyStore, prevActive |-> Null]
NoTurbo ==
  [pc |-> "idle", key |-> <<>>, idx |-> 0, active |-> FALSE, started |-> <<>>,
   steps |-> 0, errors |-> 0, failed |-> 0, tempGuard |-> FALSE]
NoWin == [fn |-> "none", stage |-> 0, ret |-> "none", caller |-> "none"]
NoExec == [pc |-> "idle", op |-> "none", success |-> FALSE, real |-> FALSE]
NoDirect == [pc |-> "idle", fn |-> "none", ret |-> "none"]
NoTelemetry ==
  [set |-> FALSE, fpsBoost |-> 0, ramReduction |-> 0, tempReduction |-> 0,
   duration |-> 0]

\* no renderer operation is in progress
RendererIdle ==
  /\ ap.pc \in {"idle", "done"}
  /\ tb.pc \in {"idle", "returned", "thrown"}
  /\ ex.pc \in {"idle", "done"}
  /\ dr.pc \in {"idle", "done"}

\* a new operation starts from the records of the finished ones cleared
ClearOthers(keep) ==
  /\ IF keep = "ap" THEN TRUE ELSE ap' = NoApply
  /\ IF keep = "tb" THEN TRUE ELSE tb' = NoTurbo
  /\ IF keep = "ex" THEN TRUE ELSE ex' = NoExec
  /\ IF keep = "dr" THEN TRUE ELSE dr' = NoDirect

\* the effect run on mount (hooks.ts 228-262)
loadEffect_KeepInvalid(ls) ==
  LET savedProfile == getItem(ls, ProfileKey)
      correctKey ==
        IF Truthy(ObjectGet(legacyNameMap, savedProfile))
          THEN ObjectGet(legacyNameMap, savedProfile) ELSE savedProfile
  IN  IF ~Truthy(savedProfile) THEN [ls |-> ls, active |-> Null]
      ELSE IF Truthy(PresetsGet(PresetKeysMain, correctKey))
        THEN [ls |-> IF correctKey # savedProfile
                       THEN setItem(ls, ProfileKey, StringOf(correctKey)) ELSE ls,
              active |-> correctKey]
        ELSE [ls |-> ls, active |-> Null]

loadEffect(ls) ==
  LET savedProfile == getItem(ls, ProfileKey)
      correctKey ==
        IF Truthy(ObjectGet(legacyNameMap, savedProfile))
          THEN ObjectGet(legacyNameMap, savedProfile) ELSE savedProfile
  IN  IF ~Truthy(savedProfile) THEN [ls |-> ls, active |-> Null]
      ELSE IF Truthy(PresetsGet(PresetKeysMain, correctKey))
        THEN [ls |-> IF correctKey # savedProfile
                       THEN setItem(ls, ProfileKey, StringOf(correctKey)) ELSE ls,
              active |-> correctKey]
        ELSE [ls |-> removeItem(ls, ProfileKey), active |-> Null]

\* the effect run on mount in temp-project-restore/ (hooks.ts 91-97)
loadEffectRestore(ls) ==
  LET savedProfile == getItem(ls, ProfileKey)
  IN  IF Truthy(savedProfile) /\ Truthy(PresetsGet(PresetKeysRestore, savedProfile))
        THEN [ls |-> ls, active |-> savedProfile]
        ELSE [ls |-> ls, active |-> Null]

LoadProfile ==
  /\ UNCHANGED ops
  /\ ~loaded
  /\ loaded' = TRUE
  /\ LET r == IF variant = "main" THEN loadEffect(LocalStorage)
                                  ELSE loadEffectRestore(LocalStorage)
     IN  /\ store' = r.ls.store
         /\ touched' = r.ls.touched
         /\ activeProfile' = r.active
  /\ UNCHANGED <<bridge, hostAdmin, variant, envInfo, psInvoked, applying, ap,
                 tb, w, ex, dr, activeTelemetry, telemetryStartTime, now>>
  /\ UNCHANGED NotUi

PresetCommandCount == 4

\* src/ hooks.ts 270-279: normalizeProfileName, then presets[normalizedKey]
ResolvePresetMain(profileIdentifier) ==
  LET normalizedKey == normalizeProfileName(profileIdentifier)
  IN  [found |-> Truthy(normalizedKey)
                   /\ Truthy(PresetsGet(PresetKeysMain, normalizedKey)),
       key |-> StringOf(normalizedKey)]

profileNameMapRestore ==
  { <<<<"E", "-", "S", "p", "o", "r", "t", "s">>, <<"e", "s", "p", "o", "r", "t", "s">>>>,
    <<<<"B", "a", "t", "t", "l", "e", " ", "R", "o", "y", "a", "l", "e">>, <<"b", "a", "t", "t", "l", "e", "r", "o", "y", "a", "l", "e">>>>,
    <<<<"A", "A", "A", " ", "G", "a", "m", "e", "s">>, <<"a", "a", "a">>>>,
    <<<<"B", "a", "t", "t", "l", "e", "f", "i", "e", "l", "d", " ", "6">>, <<"b", "a", "t", "t", "l", "e", "f", "i", "e", "l", "d", "6">>>>,
    <<<<"S", "t", "r", "e", "a", "m", " ", "+", " ", "G", "a", "m", "e">>, <<"s", "t", "r", "e", "a", "m", "g", "a", "m", "e">>>>,
    <<<<"S", "i", "l", "e", "n", "c", "i", "o", "s", "o">>, <<"s", "i", "l", "e", "n", "t">>>> }

\* temp-project-restore/ hooks.ts 105-119: profileNameMap[id] when truthy,
\* toLowerCase() (a TypeError on an inherited member, caught by the try),
\* the strip, then presets[presetKey]
ResolvePresetRestore(profileIdentifier) ==
  LET mapped == ObjectGet(profileNameMapRestore, Str(profileIdentifier))
      presetKey == IF Truthy(mapped) THEN mapped ELSE Str(profileIdentifier)
      key == StripChars(ToLowerCase(presetKey.s), TurboStripped)
  IN  IF presetKey.t # "string" THEN [found |-> FALSE, key |-> <<>>]
      ELSE [found |-> Truthy(PresetsGet(PresetKeysRestore, Str(key))),
            key |-> key]

\* applyPreset up to its first await: setApplying(true), the two lookups,
\* and on a miss the throw, the catch and the finally
ApplyPresetCall(profileIdentifier) ==
  /\ loaded
  /\ RendererIdle
  /\ ops < MaxOps
  /\ ops' = ops + 1
  /\ LET r == IF variant = "main" THEN ResolvePresetMain(profileIdentifier)
                                  ELSE ResolvePresetRestore(profileIdentifier)
     IN  IF r.found
           THEN /\ ap' = [pc |-> IF variant = "main" THEN "env" ELSE "sim",
                          key |-> r.key, cmds |-> 0, result |-> "none",
                          prevStore |-> store, prevActive |-> activeProfile]
                /\ applying' = TRUE
           ELSE /\ ap' = [pc |-> "done", key |-> <<>>, cmds |-> 0,
                          result |-> "failure",
                          prevStore |-> store, prevActive |-> activeProfile]
                /\ applying' = FALSE
  /\ ClearOthers("ap")
  /\ UNCHANGED <<bridge, hostAdmin, variant, envInfo, store, touched, psInvoked,
                 loaded, activeProfile, w, activeTelemetry, telemetryStartTime,
                 now>>
  /\ UNCHANGED NotUi

\* await getEnvironmentInfo() and the choice of the real or simulated path
ApplyPresetEnv(ok) ==
  /\ UNCHANGED ops
  /\ ap.pc = "env"
  /\ LET info == getEnvironmentInfo(ok)
     IN  /\ envInfo' = info
         /\ ap' = [ap EXCEPT !.pc = IF info.isDesktop /\ info.isAdmin
                                      THEN "ps" ELSE "sim"]
  /\ UNCHANGED <<bridge, hostAdmin, variant, store, touched, psInvoked, loaded,
                 activeProfile, applying, tb, w, ex, dr, activeTelemetry,
                 telemetryStartTime, now>>
  /\ UNCHANGED NotUi

\* applyPresetWithPowerShell: one command of the list through powerShell.runPS,
\* which calls window.backend.runPS when the bridge exists and never throws
ApplyPresetCommand ==
  /\ UNCHANGED ops
  /\ ap.pc = "ps"
  /\ ap.cmds < PresetCommandCount
  /\ ap' = [ap EXCEPT !.cmds = @ + 1]
  /\ psInvoked' = IF bridge # "none" THEN psInvoked \cup {"applyPreset"}
                                      ELSE psInvoked
  /\ UNCHANGED <<bridge, hostAdmin, variant, envInfo, store, touched, loaded,
                 activeProfile, applying, tb, w, ex, dr, activeTelemetry,
                 telemetryStartTime, now>>
  /\ UNCHANGED NotUi

\* the end of applyPreset: fail = TRUE is the simulated random failure, which
\* only the simulated path can raise
ApplyPresetFinish(fail) ==
  /\ UNCHANGED ops
  /\ \/ ap.pc = "ps" /\ ap.cmds = PresetCommandCount /\ ~fail
     \/ ap.pc = "sim"
  /\ IF fail
       THEN /\ ap' = [ap EXCEPT !.pc = "done", !.result = "failure"]
            /\ UNCHANGED <<activeProfile, store, touched>>
       ELSE /\ ap' = [ap EXCEPT !.pc = "done", !.result = "success"]
            /\ activeProfile' = Str(ap.key)
            /\ LET ls == setItem(LocalStorage, ProfileKey, ap.key)
               IN  store' = ls.store /\ touched' = ls.touched
  /\ applying' = FALSE
  /\ UNCHANGED <<bridge, hostAdmin, variant, envInfo, psInvoked, loaded, tb, w,
                 ex, dr, activeTelemetry, telemetryStartTime, now>>
  /\ UNCHANGED NotUi


(***************************************************************************)
(* optimizer/windows.ts.  A call runs to its next await of                 *)
(* window.backend.runPS; w.stage counts the awaits of the call.            *)
(***************************************************************************)
PlanText == <<"3", "8", "1", "b", "4", "2", "2", "2">>

\* what window.backend.runPS can answer: the preload bridge resolves an
\* object; the legacy bridge resolves text (with or without the phrase the
\* caller looks for, or blank once trimmed) or rejects
BridgeReplies ==
  CASE bridge = "preload" -> {"object"}
    [] bridge = "legacy" -> {"marker", "other", "blank", "reject"}
    [] OTHER -> {}

\* the value the catch block of fn returns
CatchValue(fn) == IF fn = "closeBackgroundApps" THEN "number" ELSE "false"

WinDone(fn, ret, caller) == [fn |-> fn, stage |-> 0, ret |-> ret, caller |-> caller]

WinFinished == w.fn # "none" /\ w.stage = 0

\* the call of window.backend.runPS inside the try of fn: without a bridge
\* it is a TypeError that the catch turns into the error value
InvokeBridge(fn, stage, caller) ==
  IF bridge = "none"
    THEN /\ w' = WinDone(fn, CatchValue(fn), caller)
         /\ UNCHANGED psInvoked
    ELSE /\ w' = [fn |-> fn, stage |-> stage, ret |-> "none", caller |-> caller]
         /\ psInvoked' = psInvoked \cup {caller}

\* the start of a call of fn on behalf of caller
WinOptEnter(fn, caller) ==
  /\ UNCHANGED <<store, touched>>
  /\ CASE fn \in {"setFanSpeed", "applyGpuBoost"} ->
            w' = WinDone(fn, "object", caller) /\ UNCHANGED psInvoked
       [] fn = "restoreAll" /\ ~Truthy(getItem(LocalStorage, PrevPowerPlanKey)) ->
            InvokeBridge(fn, 2, caller)
       [] OTHER -> InvokeBridge(fn, 1, caller)

\* text.includes(phrase) on the reply; on an object it is a TypeError
ReplyIncludes(reply) == reply = "marker"
ReplyIsText(reply) == reply \in {"marker", "other", "blank"}

\* the rest of fn after the await number stage got reply:
\* next = 0 when the call returned ret, else the number of the next await
WinOptAfter(fn, stage, reply) ==
  CASE fn = "applyPowerPlan" /\ stage = 1 ->
         IF ~ReplyIsText(reply) THEN [next |-> 0, ret |-> "false", effect |-> "none"]
         ELSE IF reply = "blank" THEN [next |-> 2, ret |-> "none", effect |-> "none"]
         ELSE [next |-> 2, ret |-> "none", effect |-> "savePlan"]
    [] fn = "applyPowerPlan" /\ stage = 2 ->
         [next |-> 0, ret |-> IF ReplyIncludes(reply) THEN "true" ELSE "false",
          effect |-> "none"]
    [] fn \in {"setProcessPriority", "clearTempCaches"} ->
         [next |-> 0, ret |-> IF ReplyIncludes(reply) THEN "true" ELSE "false",
          effect |-> "none"]
    [] fn = "freeRam" ->
         [next |-> 0, ret |-> IF ReplyIsText(reply) THEN "true" ELSE "false",
          effect |-> "none"]
    [] fn = "closeBackgroundApps" ->
         [next |-> 0, ret |-> "number", effect |-> "none"]
    [] fn = "restoreAll" /\ stage = 1 ->
         IF reply = "reject" THEN [next |-> 0, ret |-> "false", effect |-> "none"]
         ELSE [next |-> 2, ret |-> "none", effect |-> "dropPlan"]
    [] fn = "restoreAll" /\ stage = 2 ->
         [next |-> 0, ret |-> IF ReplyIncludes(reply) THEN "true" ELSE "false",
          effect |-> "none"]

WinOptReply(reply) ==
  /\ w.stage \in {1, 2}
  /\ reply \in BridgeReplies
  /\ LET a == WinOptAfter(w.fn, w.stage, reply)
         ls == CASE a.effect = "savePlan" -> setItem(LocalStorage, PrevPowerPlanKey, PlanText)
                 [] a.effect = "dropPlan" -> removeItem(LocalStorage, PrevPowerPlanKey)
                 [] OTHER -> LocalStorage
     IN  /\ w' = [w EXCEPT !.stage = a.next, !.ret = a.ret]
         /\ store' = ls.store
         /\ touched' = ls.touched
  /\ UNCHANGED <<bridge, hostAdmin, variant, envInfo, psInvoked, loaded,
                 activeProfile, applying, ap, tb, ex, dr, activeTelemetry,
                 telemetryStartTime, now, ops>>
  /\ UNCHANGED NotUi

\* a direct call of an exported function of optimizer/windows.ts
DirectCall(fn) ==
  /\ RendererIdle
  /\ ops < MaxOps
  /\ ops' = ops + 1
  /\ dr' = [pc |-> "running", fn |-> fn, ret |-> "none"]
  /\ WinOptEnter(fn, "direct")
  /\ ClearOthers("dr")
  /\ UNCHANGED <<bridge, hostAdmin, variant, envInfo, loaded, activeProfile,
                 applying, activeTelemetry, telemetryStartTime, now>>
  /\ UNCHANGED NotUi

DirectReturn ==
  /\ dr.pc = "running"
  /\ WinFinished
  /\ dr' = [dr EXCEPT !.pc = "done", !.ret = w.ret]
  /\ w' = NoWin
  /\ UNCHANGED <<bridge, hostAdmin, variant, envInfo, store, touched, psInvoked,
                 loaded, activeProfile, applying, ap, tb, ex, activeTelemetry,
                 telemetryStartTime, now, ops>>
  /\ UNCHANGED NotUi

(***************************************************************************)
(* hooks.ts: useGameBoostOptimizer                                         *)
(***************************************************************************)
FacadeOperations ==
  {"optimizeCpuRam", "boostGamePriority", "clearSystemCache",
   "applyMaxPerformancePowerPlan"}

\* the optimizer function each facade operation hands to executeOptimization
FacadeFunction(op) ==
  CASE op = "optimizeCpuRam" -> "freeRam"
    [] op = "boostGamePriority" -> "closeBackgroundApps"
    [] op = "clearSystemCache" -> "clearTempCaches"
    [] op = "applyMaxPerformancePowerPlan" -> "applyPowerPlan"

\* isDesktop() of hooks/useElectron: !!window.backend?.runPS
isDesktop == bridge # "none"

ExecuteOptimization(op) ==
  /\ RendererIdle
  /\ ops < MaxOps
  /\ ops' = ops + 1
  /\ IF isDesktop
       THEN /\ ex' = [pc |-> "real", op |-> op, success |-> FALSE, real |-> TRUE]
            /\ WinOptEnter(FacadeFunction(op), "facade")
       ELSE /\ ex' = [pc |-> "preview", op |-> op, success |-> FALSE, real |-> FALSE]
            /\ w' = NoWin
            /\ UNCHANGED <<store, touched, psInvoked>>
  /\ ClearOthers("ex")
  /\ UNCHANGED <<bridge, hostAdmin, variant, envInfo, loaded, activeProfile,
                 applying, activeTelemetry, telemetryStartTime, now>>
  /\ UNCHANGED NotUi

\* the optimizer function settled, or the 300 ms preview delay elapsed
ExecuteOptimizationReturn ==
  /\ \/ ex.pc = "real" /\ WinFinished
     \/ ex.pc = "preview"
  /\ ex' = [ex EXCEPT !.pc = "done", !.success = TRUE]
  /\ w' = NoWin
  /\ UNCHANGED <<bridge, hostAdmin, variant, envInfo, store, touched, psInvoked,
                 loaded, activeProfile, applying, ap, tb, dr, activeTelemetry,
                 telemetryStartTime, now, ops>>
  /\ UNCHANGED NotUi


(***************************************************************************)
(* turbo.ts (src/ and temp-project-restore/)                               *)
(***************************************************************************)
KeyEsports == <<"e", "s", "p", "o", "r", "t", "s">>
KeyBattleRoyale == <<"b", "a", "t", "t", "l", "e", "r", "o", "y", "a", "l", "e">>
KeyAaa == <<"a", "a", "a">>
KeyBattlefield6 == <<"b", "a", "t", "t", "l", "e", "f", "i", "e", "l", "d", "6">>
KeyStreamGame == <<"s", "t", "r", "e", "a", "m", "g", "a", "m", "e">>
KeySilent == <<"s", "i", "l", "e", "n", "t">>
KeyArcRiders == <<"a", "r", "c", "r", "i", "d", "e", "r", "s">>
KeyWarzone == <<"w", "a", "r", "z", "o", "n", "e">>

calculateFpsBoost(v, profileKey) ==
  CASE profileKey \in {KeyEsports, KeyBattleRoyale} -> 5
    [] profileKey = KeyAaa -> 3
    [] profileKey = KeyBattlefield6 -> 6
    [] profileKey = KeyStreamGame -> 4
    [] profileKey = KeySilent -> 0
    [] v = "main" /\ profileKey = KeyArcRiders -> 4
    [] v = "main" /\ profileKey = KeyWarzone -> 5
    [] OTHER -> 4

BoostDuration == 60000
RamBase == 8
RamRange == 5
TempBase == 2
TempRange == 3

\* r5 = Math.floor(Math.random() * 5), r3 = Math.floor(Math.random() * 3)
activateTelemetryBoost_AlwaysTemp(v, profileKey, tempGuard, r5, r3) ==
  [set |-> TRUE,
   fpsBoost |-> calculateFpsBoost(v, profileKey),
   ramReduction |-> r5 + RamBase,
   tempReduction |-> r3 + TempBase,
   duration |-> BoostDuration]

activateTelemetryBoost(v, profileKey, tempGuard, r5, r3) ==
  [set |-> TRUE,
   fpsBoost |-> calculateFpsBoost(v, profileKey),
   ramReduction |-> r5 + RamBase,
   tempReduction |-> IF tempGuard THEN r3 + TempBase ELSE 0,
   duration |-> BoostDuration]

\* turbo.ts 141: fadeTime
FadeTime == 5000

\* the multiplications of getActiveTelemetryBoost are by fractions of
\* fadeTime: a returned value x is held as the integer x * FadeTime, so the
\* multiplier 1 is FadeTime and 1 - (elapsed - duration) / fadeTime is
\* FadeTime - (elapsed - duration)
fadeMultiplier(boost, elapsed) == FadeTime - (elapsed - boost.duration)

Faded(boost, multiplier) ==
  [set |-> TRUE,
   fpsBoost |-> boost.fpsBoost * multiplier,
   ramReduction |-> boost.ramReduction * multiplier,
   tempReduction |-> boost.tempReduction * multiplier,
   duration |-> boost.duration]

\* the return value null
NullBoost == [set |-> FALSE]

\* getActiveTelemetryBoost at Date.now() = t: the value returned and the
\* activeTelemetry it leaves
getActiveTelemetryBoost_NeverCleared(boost, start, t) ==
  LET elapsed == t - start
  IN  IF ~boost.set THEN [result |-> NullBoost, active |-> boost]
      ELSE IF elapsed >= boost.duration
        THEN IF elapsed >= boost.duration + FadeTime
               THEN [result |-> NullBoost, active |-> boost]
             ELSE [result |-> Faded(boost, fadeMultiplier(boost, elapsed)),
                   active |-> boost]
      ELSE [result |-> Faded(boost, FadeTime), active |-> boost]

getActiveTelemetryBoost(boost, start, t) ==
  LET elapsed == t - start
  IN  IF ~boost.set THEN [result |-> NullBoost, active |-> boost]
      ELSE IF elapsed >= boost.duration
        THEN IF elapsed >= boost.duration + FadeTime
               THEN [result |-> NullBoost, active |-> NoTelemetry]
             ELSE [result |-> Faded(boost, fadeMultiplier(boost, elapsed)),
                   active |-> boost]
      ELSE [result |-> Faded(boost, FadeTime), active |-> boost]

DigitChars == <<"0", "1", "2", "3", "4", "5", "6", "7", "8", "9">>

\* String(n) for a non-negative integer
RECURSIVE NumberText(_)
NumberText(n) ==
  IF n < 10 THEN <<DigitChars[n + 1]>>
  ELSE NumberText(n \div 10) \o <<DigitChars[(n % 10) + 1]>>

\* JSON.stringify({ lastTurboAt, lastTurboProfile })
JsonStringify(lastTurboAt, lastTurboProfile) ==
  <<"{", "\"", "l", "a", "s", "t", "T", "u", "r", "b", "o", "A", "t", "\"", ":">> \o NumberText(lastTurboAt) \o <<",", "\"", "l", "a", "s", "t", "T", "u", "r", "b", "o", "P", "r", "o", "f", "i", "l", "e", "\"", ":", "\"">> \o lastTurboProfile \o <<"\"", "}">>

OperationsMain ==
  <<"freeRam", "closeBackgroundApps", "setProcessPriority", "applyPowerPlan",
    "clearTempCaches", "setFanSpeed", "applyGpuBoost">>

OperationsRestore ==
  <<"freeRam", "closeBackgroundApps", "setCpuPriority", "applyPowerPlan",
    "setFanSpeed", "applyGpuBoost", "cleanTempCaches", "networkBoostBasic">>

Operations(v) == IF v = "main" THEN OperationsMain ELSE OperationsRestore

\* runTurbo up to its loop: normalisation, lookup, throw on a miss
RunTurbo(profileIdentifier) ==
  /\ RendererIdle
  /\ ops < MaxOps
  /\ ops' = ops + 1
  /\ LET profileKey == StripChars(ToLowerCase(profileIdentifier), TurboStripped)
         preset == PresetsGet(PresetKeys(variant), Str(profileKey))
     IN  IF ~Truthy(preset)
           THEN tb' = [NoTurbo EXCEPT !.pc = "thrown", !.key = profileKey]
           ELSE tb' = [NoTurbo EXCEPT !.pc = "running", !.key = profileKey,
                                      !.tempGuard = (profileKey = KeyBattlefield6)]
  /\ ClearOthers("tb")
  /\ UNCHANGED <<bridge, hostAdmin, variant, envInfo, store, touched, psInvoked,
                 loaded, activeProfile, applying, w, activeTelemetry,
                 telemetryStartTime, now>>
  /\ UNCHANGED NotUi

\* the loop calls the next operation: in src/ it is step(label, fnReal), which
\* calls the optimizer function on the desktop and waits 300 ms otherwise; in
\* temp-project-restore/ it is a simulated operation that waits
TurboStartOperation ==
  /\ tb.pc = "running"
  /\ ~tb.active
  /\ tb.idx < Len(Operations(variant))
  /\ LET op == Operations(variant)[tb.idx + 1]
     IN  /\ tb' = [tb EXCEPT !.active = TRUE, !.started = Append(@, op)]
         /\ IF variant = "main" /\ isDesktop
              THEN WinOptEnter(op, "turbo")
              ELSE w' = NoWin /\ UNCHANGED <<store, touched, psInvoked>>
  /\ UNCHANGED <<bridge, hostAdmin, variant, envInfo, loaded, activeProfile,
                 applying, ap, ex, dr, activeTelemetry, telemetryStartTime, now,
                 ops>>
  /\ UNCHANGED NotUi

\* step(): true unless the awaited function threw; its value is dropped
step(thrown) == ~thrown

\* a simulated operation of temp-project-restore/: shouldFail() decides,
\* except that setFanSpeed succeeds outright when tempGuard meets a hot reading
SimulatedOperation(op, tempGuard, hot, fail) ==
  IF op = "setFanSpeed" /\ tempGuard /\ hot THEN TRUE ELSE ~fail

\* the loop body after the await: steps++, and errors++ on a falsy result;
\* n is the length of the list
Tally_StopAtError(t, success, n) ==
  [t EXCEPT !.steps = @ + 1,
            !.errors = IF success THEN @ ELSE @ + 1,
            !.idx = IF success THEN @ + 1 ELSE n,
            !.active = FALSE]

Tally(t, success, n) ==
  [t EXCEPT !.steps = @ + 1,
            !.errors = IF success THEN @ ELSE @ + 1,
            !.idx = @ + 1,
            !.active = FALSE]

\* the awaited operation settles and the loop body counts it; tb.failed
\* counts the operations whose underlying function reported failure
TurboSettleOperation(hot, fail) ==
  /\ tb.pc = "running"
  /\ tb.active
  /\ LET op == Operations(variant)[tb.idx + 1]
         n == Len(Operations(variant))
     IN  IF variant = "main"
           THEN /\ ~hot /\ ~fail
                /\ isDesktop => WinFinished
                /\ LET underlying == IF isDesktop THEN w.ret ELSE "true"
                       t == Tally(tb, step(underlying = "throw"), n)
                   IN  tb' = [t EXCEPT !.failed =
                                IF underlying \in {"false", "throw"} THEN @ + 1 ELSE @]
           ELSE /\ LET ok == SimulatedOperation(op, tb.tempGuard, hot, fail)
                       t == Tally(tb, ok, n)
                   IN  tb' = [t EXCEPT !.failed = IF ok THEN @ ELSE @ + 1]
  /\ w' = NoWin
  /\ UNCHANGED <<bridge, hostAdmin, variant, envInfo, store, touched, psInvoked,
                 loaded, activeProfile, applying, ap, ex, dr, activeTelemetry,
                 telemetryStartTime, now, ops>>
  /\ UNCHANGED NotUi

\* after the loop: activateTelemetryBoost, the 'gb.turbo' record, the return
TurboFinish(r5, r3) ==
  /\ tb.pc = "running"
  /\ ~tb.active
  /\ tb.idx >= Len(Operations(variant))
  /\ activeTelemetry' = activateTelemetryBoost(variant, tb.key, tb.tempGuard, r5, r3)
  /\ telemetryStartTime' = now
  /\ LET ls == setItem(LocalStorage, TurboKey, JsonStringify(now, tb.key))
     IN  store' = ls.store /\ touched' = ls.touched
  /\ tb' = [tb EXCEPT !.pc = "returned"]
  /\ UNCHANGED <<bridge, hostAdmin, variant, envInfo, psInvoked, loaded,
                 activeProfile, applying, ap, w, ex, dr, now, ops>>
  /\ UNCHANGED NotUi

\* time passes
Tick ==
  /\ now < MaxClock
  /\ now' = now + 1
  /\ UNCHANGED <<bridge, hostAdmin, variant, envInfo, store, touched, psInvoked,
                 loaded, activeProfile, applying, ap, tb, w, ex, dr,
                 activeTelemetry, telemetryStartTime, ops>>
  /\ UNCHANGED NotUi


(***************************************************************************)
(* telemetry: startCollectors / stopCollectors                             *)
(***************************************************************************)
CollectIntervalMs == 1000

TelemetryInitialState ==
  [isRunning |-> FALSE, simulationMode |-> TRUE, intervalId |-> 0,
   presentMonProcess |-> 0, lhmProcess |-> 0]

NoStart == [n |-> 0, desktop |-> FALSE, spawned |-> 0, threw |-> FALSE]

\* setInterval(collectTelemetryData, 1000): a fresh timer, its id kept in state
InstallInterval(st, id) == [st EXCEPT !.intervalId = id]

\* the id setInterval returns: every completed start installs one interval
FreshTimer == lastStart.n + 1

\* !!window?.backend?.runPS as startCollectors evaluates it
CollectorsDesktop == bridge # "none"

\* startRealCollectors: the three imports, then for each tool existsSync and
\* spawn inside its own try; the value is collectorsStarted
startRealCollectors_AlwaysStarted(importOk, pmExists, pmSpawns, lhmExists, lhmSpawns) ==
  IF ~importOk THEN [started |-> TRUE, pm |-> FALSE, lhm |-> FALSE]
  ELSE [started |-> TRUE,
        pm |-> pmExists /\ pmSpawns,
        lhm |-> lhmExists /\ lhmSpawns]

startRealCollectors(importOk, pmExists, pmSpawns, lhmExists, lhmSpawns) ==
  IF ~importOk THEN [started |-> FALSE, pm |-> FALSE, lhm |-> FALSE]
  ELSE [started |-> (pmExists /\ pmSpawns) \/ (lhmExists /\ lhmSpawns),
        pm |-> pmExists /\ pmSpawns,
        lhm |-> lhmExists /\ lhmSpawns]

Count(b) == IF b THEN 1 ELSE 0

PresentMon == "PresentMon"
LibreHardwareMonitor == "LibreHardwareMonitor"

\* the processes one startRealCollectors call spawns; spawn() returns a new
\* handle each time, named here after the start that made it
Spawned(r, id) ==
  {[tool |-> PresentMon, id |-> id] : x \in {y \in {1} : r.pm}}
    \cup {[tool |-> LibreHardwareMonitor, id |-> id] : x \in {y \in {1} : r.lhm}}

\* stopRealCollectors: kill() on the two handles the state holds
Killed(st) ==
  {[tool |-> PresentMon, id |-> st.presentMonProcess],
   [tool |-> LibreHardwareMonitor, id |-> st.lhmProcess]}

\* startCollectors up to its first await.  Without a window the test of the
\* environment throws and the catch installs the simulated loop; in a plain
\* page the call completes at once; on the desktop it awaits the real start
StartCollectors ==
  /\ ~state.isRunning
  /\ starts < MaxStarts
  /\ starts' = starts + 1
  /\ IF ~hasWindow \/ ~CollectorsDesktop
       THEN /\ state' = InstallInterval(
                          [state EXCEPT !.simulationMode = TRUE, !.isRunning = TRUE],
                          FreshTimer)
            /\ timers' = timers \cup {[id |-> FreshTimer, ms |-> CollectIntervalMs]}
            /\ lastStart' = [n |-> lastStart.n + 1, desktop |-> FALSE,
                             spawned |-> 0, threw |-> ~hasWindow]
            /\ UNCHANGED startPending
       ELSE /\ startPending' = startPending + 1
            /\ UNCHANGED <<state, timers, lastStart>>
  /\ UNCHANGED <<hasWindow, stopPending, procs, cb>>
  /\ UNCHANGED NotColl

\* the real start settled: simulationMode follows its answer, the loop starts
StartCollectorsFinish(importOk, pmExists, pmSpawns, lhmExists, lhmSpawns) ==
  /\ startPending > 0
  /\ startPending' = startPending - 1
  /\ LET r == startRealCollectors(importOk, pmExists, pmSpawns, lhmExists, lhmSpawns)
         id == FreshTimer
     IN  /\ state' = InstallInterval(
                       [state EXCEPT !.simulationMode = ~r.started,
                                     !.isRunning = TRUE,
                                     !.presentMonProcess = IF r.pm THEN id ELSE @,
                                     !.lhmProcess = IF r.lhm THEN id ELSE @],
                       id)
         /\ timers' = timers \cup {[id |-> id, ms |-> CollectIntervalMs]}
         /\ procs' = procs \cup Spawned(r, id)
         /\ lastStart' = [n |-> lastStart.n + 1, desktop |-> TRUE,
                          spawned |-> Count(r.pm) + Count(r.lhm), threw |-> FALSE]
  /\ UNCHANGED <<hasWindow, stopPending, starts, cb>>
  /\ UNCHANGED NotColl

\* stopCollectors: the interval is cleared; in real mode the processes are
\* killed and the call awaits before it lowers isRunning
StopCollectors ==
  /\ state.isRunning
  /\ timers' = {t \in timers : t.id # state.intervalId}
  /\ IF state.simulationMode
       THEN /\ state' = [state EXCEPT !.intervalId = 0, !.isRunning = FALSE]
            /\ UNCHANGED <<stopPending, procs>>
       ELSE /\ stopPending < MaxStarts
            /\ state' = [state EXCEPT !.intervalId = 0,
                                      !.presentMonProcess = 0,
                                      !.lhmProcess = 0]
            /\ procs' = procs \ Killed(state)
            /\ stopPending' = stopPending + 1
  /\ UNCHANGED <<hasWindow, startPending, starts, lastStart, cb>>
  /\ UNCHANGED NotColl

StopCollectorsFinish ==
  /\ stopPending > 0
  /\ stopPending' = stopPending - 1
  /\ state' = [state EXCEPT !.isRunning = FALSE]
  /\ UNCHANGED <<hasWindow, timers, procs, startPending, starts, lastStart, cb>>
  /\ UNCHANGED NotColl

\* the callbacks handed to onTelemetry: one that returns, one that throws,
\* one that calls the unsubscribe function it was given for itself
CallbackPlain == "plain"
CallbackThrows == "throws"
CallbackUnsubscribes == "unsubscribes"
Callbacks == {CallbackPlain, CallbackThrows, CallbackUnsubscribes}

NoTick == [set |-> FALSE, start |-> <<>>]

\* subs: the onTelemetry calls in order, each with its callback and the number
\* of calls of the function it returned.  callbacks: state.callbacks, every
\* element named by the onTelemetry call that pushed it (the array itself
\* holds the callback only).  pending: a tick awaiting the real sample.
\* tick: the tick that delivered last, the array when it started, the
\* elements it called in order, the errors it caught
NoCallbacks ==
  [subs |-> <<>>, callbacks |-> <<>>, pending |-> NoTick,
   tick |-> [set |-> FALSE, start |-> <<>>, delivered |-> <<>>, errors |-> 0]]

\* state.callbacks.indexOf(callback): the first index holding the callback, 0 for -1
RECURSIVE IndexOf(_, _, _, _)
IndexOf(arr, subs, fn, k) ==
  IF k > Len(arr) THEN 0
  ELSE IF subs[arr[k]].fn = fn THEN k
  ELSE IndexOf(arr, subs, fn, k + 1)

\* the function onTelemetry(callback) returns: splice(index, 1) when
\* indexOf(callback) > -1
Unsubscribed(arr, subs, fn) ==
  LET index == IndexOf(arr, subs, fn, 1)
  IN  IF index > 0
        THEN SubSeq(arr, 1, index - 1) \o SubSeq(arr, index + 1, Len(arr))
        ELSE arr

\* state.callbacks.forEach(...): the indices below the length the array had
\* at the start are visited in order, an index the array no longer has is
\* skipped; each call is inside a try, an error is logged
RECURSIVE ForEachCallback(_, _, _)
ForEachCallback(c, k, len) ==
  IF k > len THEN c
  ELSE IF k > Len(c.callbacks) THEN ForEachCallback(c, k + 1, len)
  ELSE LET r == c.callbacks[k]
           fn == c.subs[r].fn
           called == [c EXCEPT !.tick.delivered = Append(@, r),
                               !.tick.errors = IF fn = CallbackThrows THEN @ + 1 ELSE @]
           after == IF fn = CallbackUnsubscribes
                      THEN [called EXCEPT
                              !.callbacks = Unsubscribed(@, c.subs, fn),
                              !.subs[r].calls = IF @ < MaxUnsubscribes THEN @ + 1 ELSE @]
                      ELSE called
       IN  ForEachCallback(after, k + 1, len)

\* collectTelemetryData from the sample on: the delivery to the callbacks
Deliver(c, start) ==
  ForEachCallback(
    [c EXCEPT !.pending = NoTick,
              !.tick = [set |-> TRUE, start |-> start, delivered |-> <<>>,
                        errors |-> 0]],
    1, Len(c.callbacks))

NotCallbacks ==
  <<hasWindow, state, timers, procs, startPending, stopPending, starts, lastStart>>

\* onTelemetry(callback)
OnTelemetry(fn) ==
  /\ Len(cb.subs) < MaxRegistrations
  /\ cb' = [cb EXCEPT !.subs = Append(@, [fn |-> fn, calls |-> 0]),
                      !.callbacks = Append(@, Len(cb.subs) + 1)]
  /\ UNCHANGED NotCallbacks
  /\ UNCHANGED NotColl

\* a call of the function the r-th onTelemetry call returned
Unsubscribe(r) ==
  /\ r \in 1..Len(cb.subs)
  /\ cb.subs[r].calls < MaxUnsubscribes
  /\ cb' = [cb EXCEPT !.callbacks = Unsubscribed(@, cb.subs, cb.subs[r].fn),
                      !.subs[r].calls = @ + 1]
  /\ UNCHANGED NotCallbacks
  /\ UNCHANGED NotColl

\* an interval fires: collectTelemetryData.  The simulated sample is made at
\* once and delivered; the real one is awaited
CollectTick(id) ==
  /\ \E t \in timers : t.id = id
  /\ ~cb.pending.set
  /\ cb' = IF state.simulationMode
             THEN Deliver(cb, cb.callbacks)
             ELSE [cb EXCEPT !.pending = [set |-> TRUE, start |-> cb.callbacks]]
  /\ UNCHANGED NotCallbacks
  /\ UNCHANGED NotColl

\* collectRealTelemetryData settles, with the data read or the fallback
CollectDeliver ==
  /\ cb.pending.set
  /\ cb' = Deliver(cb, cb.pending.start)
  /\ UNCHANGED NotCallbacks
  /\ UNCHANGED NotColl

(***************************************************************************)
(* main.js: app.whenReady, checkAdminRights, requestElevation, the         *)
(* 'get-environment' and 'request-elevation' handlers                      *)
(***************************************************************************)
NoReply == [set |-> FALSE, isAdmin |-> FALSE, success |-> FALSE]

\* the event that called resolve first: "platform" (the return off Windows),
\* "exit" with its code, "error" or "timer"
NoEvent == [event |-> "none", code |-> NullCode]

\* the process as launched: `let isAdmin = false`, nothing registered
HostLaunched ==
  [phase |-> "launched", resolved |-> FALSE, value |-> FALSE,
   childAlive |-> FALSE, timerArmed |-> FALSE, handlers |-> FALSE,
   elevated |-> 0, requests |-> 0, envReply |-> NoReply, elevReply |-> NoReply,
   killed |-> FALSE, first |-> NoEvent]

\* resolve(v) of the probe's promise: only the first call settles it
ProbeResolve_LastWins(h, v, event) ==
  [h EXCEPT !.resolved = TRUE, !.value = v, !.first = IF h.resolved THEN @ ELSE event]

ProbeResolve(h, v, event) ==
  IF h.resolved THEN h
  ELSE [h EXCEPT !.resolved = TRUE, !.value = v, !.first = event]

\* app.whenReady().then(...) up to `await checkAdminRights()`: off Windows
\* the probe answers true at once, on Windows it spawns `net session` and
\* arms the 3 s timer
WhenReady ==
  /\ host.phase = "launched"
  /\ host' = IF ~isWindows
               THEN ProbeResolve([host EXCEPT !.phase = "probing"], TRUE,
                                 [event |-> "platform", code |-> NullCode])
               ELSE [host EXCEPT !.phase = "probing", !.childAlive = TRUE,
                                 !.timerArmed = TRUE]
  /\ UNCHANGED hostAdmin
  /\ UNCHANGED NotHost

\* child.on('exit'): resolve(code === 0)
ProbeExit(code) ==
  /\ host.phase # "up"
  /\ host.childAlive
  /\ host' = ProbeResolve([host EXCEPT !.childAlive = FALSE], code = 0,
                          [event |-> "exit", code |-> code])
  /\ UNCHANGED hostAdmin
  /\ UNCHANGED NotHost

\* child.on('error'): resolve(false)
ProbeError ==
  /\ host.phase # "up"
  /\ host.childAlive
  /\ host' = ProbeResolve([host EXCEPT !.childAlive = FALSE], FALSE,
                          [event |-> "error", code |-> NullCode])
  /\ UNCHANGED hostAdmin
  /\ UNCHANGED NotHost

\* the 3 s timer, never cleared: child.kill(), resolve(false)
ProbeTimeout ==
  /\ host.phase # "up"
  /\ host.timerArmed
  /\ host' = ProbeResolve([host EXCEPT !.timerArmed = FALSE, !.killed = TRUE], FALSE,
                          [event |-> "timer", code |-> NullCode])
  /\ UNCHANGED hostAdmin
  /\ UNCHANGED NotHost

\* the continuation of the await: isAdmin = the probe's value, setupIPC()
BootContinue ==
  /\ host.phase = "probing"
  /\ host.resolved
  /\ hostAdmin' = host.value
  /\ host' = [host EXCEPT !.phase = "running", !.handlers = TRUE]
  /\ UNCHANGED NotHost

\* ipcMain.handle('get-environment')
GetEnvironment ==
  /\ host.phase = "running"
  /\ host.handlers
  /\ host.requests < MaxRequests
  /\ host' = [host EXCEPT !.requests = @ + 1,
                          !.envReply = [set |-> TRUE, isAdmin |-> hostAdmin,
                                        success |-> TRUE]]
  /\ UNCHANGED hostAdmin
  /\ UNCHANGED NotHost

\* requestElevation(): false off Windows; else spawn the elevated copy,
\* app.quit() and true, or false when the try block throws
requestElevation(isWin, throws) ==
  IF ~isWin \/ throws
    THEN [ret |-> FALSE, spawned |-> 0, quit |-> FALSE]
    ELSE [ret |-> TRUE, spawned |-> 1, quit |-> TRUE]

\* the 'request-elevation' handler
requestElevationHandler_AlwaysElevate(admin, isWin, throws) ==
  LET r == requestElevation(isWin, throws)
  IN  [success |-> r.ret, spawned |-> r.spawned, quit |-> r.quit]

requestElevationHandler(admin, isWin, throws) ==
  IF admin THEN [success |-> TRUE, spawned |-> 0, quit |-> FALSE]
  ELSE LET r == requestElevation(isWin, throws)
       IN  [success |-> r.ret, spawned |-> r.spawned, quit |-> r.quit]

RequestElevation(throws) ==
  /\ host.phase = "running"
  /\ host.handlers
  /\ host.requests < MaxRequests
  /\ LET r == requestElevationHandler(hostAdmin, isWindows, throws)
     IN  host' = [host EXCEPT !.requests = @ + 1,
                             !.elevated = @ + r.spawned,
                             !.phase = IF r.quit THEN "quit" ELSE @,
                             !.elevReply = [set |-> TRUE, isAdmin |-> hostAdmin,
                                            success |-> r.success]]
  /\ UNCHANGED hostAdmin
  /\ UNCHANGED NotHost

(***************************************************************************)
(* main.js readSystemFile and the preload readFile wrapper.  A path is the *)
(* sequence of its segments; the text of a path joins them with "\\".      *)
(***************************************************************************)
Dot == <<".">>
DotDot == <<".", ".">>
Separator == "\\"

RECURSIVE NormalizeSegments(_, _)
\* path.normalize: "." and empty segments dropped, ".." cancels the segment
\* before it
NormalizeSegments(segs, acc) ==
  IF segs = <<>> THEN acc
  ELSE LET h == Head(segs)
       IN  IF h = Dot \/ h = <<>>
             THEN NormalizeSegments(Tail(segs), acc)
           ELSE IF h = DotDot /\ acc # <<>> /\ acc[Len(acc)] # DotDot
             THEN NormalizeSegments(Tail(segs), SubSeq(acc, 1, Len(acc) - 1))
           ELSE NormalizeSegments(Tail(segs), Append(acc, h))

RECURSIVE JoinPath(_)
JoinPath(segs) ==
  IF segs = <<>> THEN <<>>
  ELSE IF Len(segs) = 1 THEN segs[1]
  ELSE segs[1] \o <<Separator>> \o JoinPath(Tail(segs))

\* the text of path.normalize(filePath); "." for a path that cancels out
pathNormalize(segs) ==
  LET n == NormalizeSegments(segs, <<>>)
  IN  IF n = <<>> THEN Dot ELSE JoinPath(n)

dangerousPaths ==
  { <<"s", "y", "s", "t", "e", "m", "3", "2">>,
    <<"w", "i", "n", "d", "o", "w", "s">>,
    <<"p", "r", "o", "g", "r", "a", "m", " ", "f", "i", "l", "e", "s">>,
    <<"u", "s", "e", "r", "s">>,
    <<"d", "o", "c", "u", "m", "e", "n", "t", "s", " ", "a", "n", "d", " ", "s", "e", "t", "t", "i", "n", "g", "s">> }

\* dangerousPaths.some(dangerous => lowerPath.includes(dangerous))
IsDenied_CaseSensitive(text) ==
  \E dangerous \in dangerousPaths : Includes(text, dangerous)

IsDenied(text) ==
  LET lowerPath == ToLowerCase(text)
  IN  \E dangerous \in dangerousPaths : Includes(lowerPath, dangerous)

\* 1024 * 1024
MaxFileSize == 1048576

PreloadMaxPathLength == 500

\* preload.js validateFilePath: a string of 1 to 500 characters
validateFilePath(filePath) ==
  /\ filePath.t = "string"
  /\ Len(JoinPath(filePath.segs)) # 0
  /\ Len(JoinPath(filePath.segs)) <= PreloadMaxPathLength

PathArg(segs) == [t |-> "string", segs |-> segs]
NonPath(t) == [t |-> t, segs |-> <<>>]

Failure == [success |-> FALSE, has |-> "error"]
Content == [success |-> TRUE, has |-> "content"]

\* the request arrives: the preload wrapper validates and invokes the host,
\* a direct invocation reaches the host as it is; readSystemFile runs up to
\* `await fs.stat(normalizedPath)`
ReadFileCall ==
  /\ rf.pc = "arg"
  /\ IF rf.via = "preload" /\ ~validateFilePath(rf.filePath)
       THEN rf' = [rf EXCEPT !.pc = "done", !.reply = Failure]
     ELSE IF rf.filePath.t # "string"
       THEN rf' = [rf EXCEPT !.pc = "done", !.invoked = TRUE, !.reply = Failure]
     ELSE LET normalizedPath == pathNormalize(rf.filePath.segs)
          IN  IF IsDenied(normalizedPath)
                THEN rf' = [rf EXCEPT !.pc = "done", !.invoked = TRUE,
                                      !.normalizedPath = normalizedPath,
                                      !.reply = Failure]
                ELSE rf' = [rf EXCEPT !.pc = "stat", !.invoked = TRUE,
                                      !.normalizedPath = normalizedPath,
                                      !.stats = @ + 1]
  /\ UNCHANGED NotFile

\* fs.stat settles: rejected, or a size; above 1 MB the function throws
StatSettles(rejected, size) ==
  /\ rf.pc = "stat"
  /\ IF rejected
       THEN rf' = [rf EXCEPT !.pc = "done", !.reply = Failure]
     ELSE IF size > MaxFileSize
       THEN rf' = [rf EXCEPT !.pc = "done", !.size = size, !.reply = Failure]
     ELSE rf' = [rf EXCEPT !.pc = "read", !.size = size, !.reads = @ + 1]
  /\ UNCHANGED NotFile

\* fs.readFile settles
ReadFileSettles(rejected) ==
  /\ rf.pc = "read"
  /\ rf' = [rf EXCEPT !.pc = "done",
                      !.reply = IF rejected THEN Failure ELSE Content]
  /\ UNCHANGED NotFile

(***************************************************************************)
(* hooks.ts useTurbo, turbo.ts getLastTurboData.  React keeps the state    *)
(* (running, cooldown) apart from the values the rendered `run` closure    *)
(* captured (seenRunning, seenCooldown); a render brings them together.    *)
(* An update made by an effect, a timer or the continuation of an await is *)
(* rendered before anything else runs; the update run() makes before its   *)
(* await is rendered when the calling handler has returned, so that code   *)
(* calling run() again at once still holds the earlier closure.            *)
(***************************************************************************)
TurboDataPrefix == <<"{", "\"", "l", "a", "s", "t", "T", "u", "r", "b", "o", "A", "t", "\"", ":">>
TurboDataMiddle == <<",", "\"", "l", "a", "s", "t", "T", "u", "r", "b", "o", "P", "r", "o", "f", "i", "l", "e", "\"", ":", "\"">>
TurboDataSuffix == <<"\"", "}">>

IsDigit(c) == \E i \in 1..10 : DigitChars[i] = c
DigitValue(c) == (CHOOSE i \in 1..10 : DigitChars[i] = c) - 1

RECURSIVE NumberOf(_)
NumberOf(digits) ==
  IF digits = <<>> THEN 0
  ELSE NumberOf(SubSeq(digits, 1, Len(digits) - 1)) * 10
         + DigitValue(digits[Len(digits)])

StartsWith(text, prefix) ==
  Len(text) >= Len(prefix) /\ SubSeq(text, 1, Len(prefix)) = prefix

\* JSON.parse on the text of 'gb.turbo': the object runTurbo writes gives its
\* lastTurboAt; null gives null; another value has no lastTurboAt; text that
\* is no JSON throws
JsonParse(text) ==
  IF text = <<"n", "u", "l", "l">> THEN [kind |-> "null", lastTurboAt |-> 0]
  ELSE IF text = <<"{", "}">> THEN [kind |-> "other", lastTurboAt |-> 0]
  ELSE IF ~StartsWith(text, TurboDataPrefix) THEN [kind |-> "throws", lastTurboAt |-> 0]
  ELSE LET rest == SubSeq(text, Len(TurboDataPrefix) + 1, Len(text))
           n == CHOOSE k \in 0..Len(rest) :
                  /\ \A i \in 1..k : IsDigit(rest[i])
                  /\ k < Len(rest) => ~IsDigit(rest[k + 1])
           digits == SubSeq(rest, 1, n)
           tail == SubSeq(rest, n + 1, Len(rest))
           body == SubSeq(tail, Len(TurboDataMiddle) + 1, Len(tail) - Len(TurboDataSuffix))
       IN  IF /\ n > 0
              /\ (n > 1 => digits[1] # "0")
              /\ StartsWith(tail, TurboDataMiddle)
              /\ Len(tail) >= Len(TurboDataMiddle) + Len(TurboDataSuffix)
              /\ SubSeq(tail, Len(tail) - Len(TurboDataSuffix) + 1, Len(tail)) = TurboDataSuffix
              /\ \A i \in 1..Len(body) : body[i] # "\"" /\ body[i] # "\\"
             THEN [kind |-> "data", lastTurboAt |-> NumberOf(digits)]
             ELSE [kind |-> "throws", lastTurboAt |-> 0]

\* getLastTurboData: `data ? JSON.parse(data) : null`, null when it throws
getLastTurboData(ls) ==
  LET data == getItem(ls, TurboKey)
  IN  IF ~Truthy(data) THEN [kind |-> "null", lastTurboAt |-> 0]
      ELSE LET v == JsonParse(data.s)
           IN  IF v.kind = "throws" THEN [kind |-> "null", lastTurboAt |-> 0] ELSE v

CooldownSeconds == 60
MsPerSecond == 1000

Max(a, b) == IF a > b THEN a ELSE b

\* the mount effect: Math.max(0, 60 - Math.floor(elapsed / 1000)), NaN (and
\* so no cooldown) when the value read has no lastTurboAt
remainingCooldown(ls, t) ==
  LET turboData == getLastTurboData(ls)
  IN  IF turboData.kind # "data" THEN 0
      ELSE Max(0, CooldownSeconds - ((t - turboData.lastTurboAt) \div MsPerSecond))

getButtonState(running, cooldown) ==
  IF running THEN "running" ELSE IF cooldown > 0 THEN "cooldown" ELSE "idle"

\* the useTurbo hook not mounted
NoUseTurbo ==
  [mounted |-> FALSE, running |-> FALSE, cooldown |-> 0, seenRunning |-> FALSE,
   seenCooldown |-> 0, timer |-> FALSE, inFlight |-> <<>>, calls |-> 0,
   started |-> 0, reloads |-> 0, idle |-> 0, restored |-> 0, last |-> "none"]

\* every change of the hook's state is rendered before time passes
Rendered == ut.seenRunning = ut.running /\ ut.seenCooldown = ut.cooldown

\* the moments at which the user acts
Acting ==
  ut.cooldown <= ActWindow \/ ut.cooldown >= CooldownSeconds - ActWindow

\* a second may pass while every sequence in progress stays within its time
MayPass ==
  \A i \in 1..Len(ut.inFlight) :
    now + MsPerSecond - ut.inFlight[i].at <= TurboSeconds * MsPerSecond

\* a render: `run` and getButtonState capture the state; the countdown effect
\* is cleaned up and run again when cooldown changed
Render(u) ==
  [u EXCEPT !.seenRunning = u.running, !.seenCooldown = u.cooldown,
            !.timer = IF u.seenCooldown # u.cooldown THEN u.cooldown > 0 ELSE @]

\* the effect run on mount
UseTurboMount ==
  /\ ~ut.mounted
  /\ LET c == remainingCooldown(LocalStorage, now)
     IN  ut' = Render([ut EXCEPT !.mounted = TRUE, !.restored = c,
                                 !.cooldown = IF c > 0 THEN c ELSE @])
  /\ UNCHANGED <<store, touched, activeTelemetry, telemetryStartTime, now>>
  /\ UNCHANGED NotHook

\* the render that follows run()'s setRunning(true)
UseTurboRender ==
  /\ ut.mounted
  /\ ~Rendered
  /\ ut' = Render(ut)
  /\ UNCHANGED <<store, touched, activeTelemetry, telemetryStartTime, now>>
  /\ UNCHANGED NotHook

\* the 1000 ms timeout of the countdown effect: setCooldown(prev => prev - 1)
UseTurboTimer ==
  /\ ut.mounted
  /\ Rendered
  /\ MayPass
  /\ ut.timer
  /\ ut' = Render([ut EXCEPT !.cooldown = @ - 1, !.timer = FALSE])
  /\ now' = now + MsPerSecond
  /\ UNCHANGED <<store, touched, activeTelemetry, telemetryStartTime>>
  /\ UNCHANGED NotHook

\* a second passes with no countdown armed
UseTurboIdle ==
  /\ Rendered
  /\ MayPass
  /\ ~ut.timer
  /\ ut.idle < MaxIdle
  /\ ut' = [ut EXCEPT !.idle = @ + 1]
  /\ now' = now + MsPerSecond
  /\ UNCHANGED <<store, touched, activeTelemetry, telemetryStartTime>>
  /\ UNCHANGED NotHook

\* run() up to its await: the three refusals on the captured values and on
\* 'gb.profile', setRunning(true), then runTurbo up to its loop, which throws
\* on a miss (caught by run, whose finally lowers running)
UseTurboRun ==
  /\ ut.mounted
  /\ Acting
  /\ ut.calls < MaxRuns
  /\ LET active == getItem(LocalStorage, ProfileKey)
         profileKey == StripChars(ToLowerCase(active.s), TurboStripped)
     IN  IF \/ ut.seenRunning
            \/ ut.seenCooldown > 0
            \/ ~Truthy(active)
            \/ ~Truthy(PresetsGet(PresetKeysMain, active))
           THEN ut' = [ut EXCEPT !.calls = @ + 1, !.last = "refused"]
         ELSE IF ~Truthy(PresetsGet(PresetKeysMain, Str(profileKey)))
           THEN ut' = [ut EXCEPT !.calls = @ + 1, !.started = @ + 1,
                                 !.running = FALSE, !.last = "threw"]
         ELSE ut' = [ut EXCEPT !.calls = @ + 1, !.started = @ + 1,
                               !.running = TRUE, !.last = "awaiting",
                               !.inFlight = Append(@, [key |-> profileKey, at |-> now])]
  /\ UNCHANGED <<store, touched, activeTelemetry, telemetryStartTime, now>>
  /\ UNCHANGED NotHook

\* runTurbo number i returns: the boost is activated and 'gb.turbo' written
\* (turbo.ts 231-239); run goes on with setCooldown(60) and, in its finally,
\* setRunning(false).  The operations of the sequence only wait in a page
\* without the bridge and are left out here
UseTurboReturn(i, errors) ==
  /\ ut.mounted
  /\ i \in 1..Len(ut.inFlight)
  /\ LET profileKey == ut.inFlight[i].key
         ls == setItem(LocalStorage, TurboKey, JsonStringify(now, profileKey))
     IN  /\ activeTelemetry' =
              activateTelemetryBoost("main", profileKey, profileKey = KeyBattlefield6, 0, 0)
         /\ telemetryStartTime' = now
         /\ store' = ls.store
         /\ touched' = ls.touched
  /\ ut' = Render([ut EXCEPT
                      !.cooldown = CooldownSeconds, !.running = FALSE,
                      !.last = IF errors = 0 THEN "success" ELSE "errors",
                      !.inFlight = SubSeq(@, 1, i - 1) \o SubSeq(@, i + 1, Len(@))])
  /\ UNCHANGED now
  /\ UNCHANGED NotHook

\* the page is loaded again: the hook and the module state start over, the
\* sequences in progress are gone, localStorage stays
UseTurboReload ==
  /\ ut.mounted
  /\ Acting
  /\ ut.reloads < MaxReloads
  /\ ut' = [NoUseTurbo EXCEPT !.calls = ut.calls, !.started = ut.started,
                              !.idle = ut.idle, !.reloads = ut.reloads + 1]
  /\ activeTelemetry' = NoTelemetry
  /\ telemetryStartTime' = 0
  /\ UNCHANGED <<store, touched, now>>
  /\ UNCHANGED NotHook

(***************************************************************************)
(* hooks.ts: useEngine                                                     *)
(***************************************************************************)
\* the values of the error state: null, the watchdog's text, a caught error's
ErrorNull == "null"
ErrorTimeout == "Timeout"
ErrorMessage == "message"

\* phase: "no" before the first render, "yes" while mounted, "gone" after the
\* unmount.  calls: one record per init() call, pc the await it is at and
\* watchdog the state of its 5-second timer.  intervals: the sensor polling
\* intervals set and not cleared; snapshotTimer: the 2-second interval of the
\* effect on ready; polled: the interval whose callback ran last
NoUseEngine ==
  [phase |-> "no", initializing |-> TRUE, ready |-> FALSE, error |-> ErrorNull,
   calls |-> <<>>, intervals |-> {}, nextInterval |-> 1, snapshotTimer |-> FALSE,
   envCached |-> FALSE, providerLoaded |-> FALSE, polled |-> 0]

\* a state setter acts on a mounted component only; the effect on ready
\* (hooks.ts 187-193) runs with the render that follows
SetEngineState(u, initializing, ready, error) ==
  IF u.phase = "yes"
    THEN [u EXCEPT !.initializing = initializing, !.ready = ready,
                   !.error = error, !.snapshotTimer = ready]
    ELSE u

\* clearTimeout(timeoutId): nothing when the timer has fired
ClearWatchdog(u, i) ==
  [u EXCEPT !.calls[i].watchdog = IF @ = "armed" THEN "cleared" ELSE @]

\* hooks.ts 76-93 (restore 37-45): the rest of the try block after the last await
InitSucceeds(u, i) ==
  LET polling == IF variant = "main"
                   THEN [u EXCEPT !.intervals = @ \cup {u.nextInterval},
                                  !.nextInterval = @ + 1]
                   ELSE u
      done == [ClearWatchdog(polling, i) EXCEPT !.calls[i].pc = "resolved"]
  IN  SetEngineState(done, FALSE, TRUE, done.error)

\* hooks.ts 95-101 (restore 47-53): the catch block
InitFails(u, i) ==
  LET done == [ClearWatchdog(u, i) EXCEPT !.calls[i].pc = "caught"]
  IN  SetEngineState(done, FALSE, FALSE, ErrorMessage)

\* hooks.ts 62-63: getProvider() imports the provider's module; once the
\* module is loaded the import and the provider's init() settle without
\* another task in between
AfterEnvironment(u, i) ==
  IF u.providerLoaded THEN InitSucceeds(u, i)
  ELSE [u EXCEPT !.calls[i].pc = "getProvider"]

\* hooks.ts 49: getEnvironmentInfo() waits for the host's reply only with the
\* preload bridge and nothing cached (part_001 55-79)
AfterInitEngine(u, i) ==
  IF variant = "restore" THEN InitSucceeds(u, i)
  ELSE IF bridge = "preload" /\ ~u.envCached
    THEN [u EXCEPT !.calls[i].pc = "getEnvironmentInfo"]
  ELSE AfterEnvironment([u EXCEPT !.envCached = TRUE], i)

\* the first render of the component
UseEngineMount ==
  /\ ue.phase = "no"
  /\ ue' = [ue EXCEPT !.phase = "yes"]
  /\ UNCHANGED NotEngine

\* init(): the three setters, the watchdog, and initEngine() started
UseEngineInit ==
  /\ ue.phase = "yes"
  /\ Len(ue.calls) < MaxInits
  /\ ue' = [SetEngineState(ue, TRUE, FALSE, ErrorNull) EXCEPT
              !.calls = Append(@, [pc |-> "initEngine", watchdog |-> "armed"])]
  /\ UNCHANGED NotEngine

\* the 1200 ms timer of initEngine (engineMock.ts 32-44) fires, after those of
\* the calls before it, and the promise is resolved or rejected
InitEngineSettles(i, rejected) ==
  /\ i \in 1..Len(ue.calls)
  /\ ue.calls[i].pc = "initEngine"
  /\ \A j \in 1..(i - 1) : ue.calls[j].pc # "initEngine"
  /\ ue' = IF rejected THEN InitFails(ue, i) ELSE AfterInitEngine(ue, i)
  /\ UNCHANGED NotEngine

\* the reply to window.env.getInfo() arrives; a rejection is caught inside
\* getEnvironmentInfo and the call goes on the same way
EnvironmentReplies(i) ==
  /\ i \in 1..Len(ue.calls)
  /\ ue.calls[i].pc = "getEnvironmentInfo"
  /\ ue' = AfterEnvironment([ue EXCEPT !.envCached = TRUE], i)
  /\ UNCHANGED NotEngine

\* the provider's module is loaded, or its import fails
ProviderLoads(i, rejected) ==
  /\ i \in 1..Len(ue.calls)
  /\ ue.calls[i].pc = "getProvider"
  /\ ue' = IF rejected THEN InitFails(ue, i)
           ELSE InitSucceeds([ue EXCEPT !.providerLoaded = TRUE], i)
  /\ UNCHANGED NotEngine

\* the 5-second watchdog of call i fires (hooks.ts 40-43): timers run in the
\* order they fall due, so after the 1200 ms timer of initEngine started in
\* the same call and after the watchdogs of the calls before it
EngineWatchdog(i) ==
  /\ i \in 1..Len(ue.calls)
  /\ ue.calls[i].watchdog = "armed"
  /\ ue.calls[i].pc # "initEngine"
  /\ \A j \in 1..(i - 1) : ue.calls[j].watchdog # "armed"
  /\ ue' = [SetEngineState(ue, FALSE, ue.ready, ErrorTimeout) EXCEPT
              !.calls[i].watchdog = "fired"]
  /\ UNCHANGED NotEngine

\* the callback of a sensor polling interval runs (hooks.ts 76-83)
SensorPoll(id) ==
  /\ id \in ue.intervals
  /\ ue' = [ue EXCEPT !.polled = id]
  /\ UNCHANGED NotEngine

\* the component unmounts: the cleanups of the effects run (hooks.ts 187-202),
\* the clearInterval of the snapshot effect among them
UseEngineUnmount ==
  /\ ue.phase = "yes"
  /\ ue' = [ue EXCEPT !.phase = "gone", !.snapshotTimer = FALSE]
  /\ UNCHANGED NotEngine

(***************************************************************************)
(* turbo.ts: the telemetry boost from activation to its end                *)
(***************************************************************************)
\* what the boost's functions leave alone: all but the boost, its start
\* time, the clock and the value last returned
NotBoost ==
  <<ipcVars, collVars, hostVars, fileVars, hookVars, bridge, hostAdmin,
    variant, envInfo, store, touched, psInvoked, loaded, activeProfile,
    applying, ap, tb, w, ex, dr, ops>>

\* activateTelemetryBoost(profileKey, tempGuard), called at Date.now() = now
ActivateTelemetryBoostCall(profileKey, tempGuard, r5, r3) ==
  /\ pure.fn = "getActiveTelemetryBoost"
  /\ activeTelemetry' = activateTelemetryBoost(variant, profileKey, tempGuard, r5, r3)
  /\ telemetryStartTime' = now
  /\ UNCHANGED <<now, pure>>
  /\ UNCHANGED NotBoost

\* getActiveTelemetryBoost(), called at Date.now() = now
GetActiveTelemetryBoostCall ==
  /\ pure.fn = "getActiveTelemetryBoost"
  /\ LET r == getActiveTelemetryBoost(activeTelemetry, telemetryStartTime, now)
     IN  /\ pure' = [pure EXCEPT !.result = r.result, !.at = now]
         /\ activeTelemetry' = r.active
  /\ UNCHANGED <<telemetryStartTime, now>>
  /\ UNCHANGED NotBoost

\* d milliseconds pass; the clock is read at the instants one millisecond
\* before and at every multiple of ClockGrid
BoostTick(d) ==
  /\ pure.fn = "getActiveTelemetryBoost"
  /\ now + d <= MaxBoostClock
  /\ (now + d) % ClockGrid \in {0, ClockGrid - 1}
  /\ now' = now + d
  /\ UNCHANGED <<activeTelemetry, telemetryStartTime, pure>>
  /\ UNCHANGED NotBoost

(***************************************************************************)
(* Specifications                                                          *)
(***************************************************************************)
\* the renderer's state after construction, the clock aside
RendererStart ==
  /\ envInfo = NoEnvInfo
  /\ touched = {}
  /\ psInvoked = {}
  /\ loaded = FALSE
  /\ activeProfile = Null
  /\ applying = FALSE
  /\ ap = NoApply
  /\ tb = NoTurbo
  /\ w = NoWin
  /\ ex = NoExec
  /\ dr = NoDirect
  /\ activeTelemetry = NoTelemetry
  /\ telemetryStartTime = 0
  /\ ops = 0

RendererInit ==
  /\ now = 0
  /\ RendererStart

\* the renderer left alone: a plain browser page that nobody uses
RendererQuiet ==
  /\ RendererInit
  /\ bridge = "none"
  /\ hostAdmin = FALSE
  /\ variant = "main"
  /\ store = EmptyStore

CollectorsInit ==
  /\ state = TelemetryInitialState
  /\ timers = {}
  /\ procs = {}
  /\ startPending = 0
  /\ stopPending = 0
  /\ starts = 0
  /\ lastStart = NoStart
  /\ cb = NoCallbacks

\* the collectors left alone
CollectorsQuiet == CollectorsInit /\ hasWindow = TRUE

\* the host left alone
IpcQuiet == IpcInit /\ isWindows

\* the host already up, its start-up not observed
NoHost == [phase |-> "up"]
HostQuiet == host = NoHost

\* the hooks not mounted
HookQuiet == ut = NoUseTurbo /\ ue = NoUseEngine

\* no 'read-file' request
NoFile == [pc |-> "none"]
FileQuiet == rf = NoFile

\* no pure function under evaluation
NoPure == [fn |-> "none"]
PureQuiet == pure = NoPure

InitIPC ==
  IpcInit /\ RendererQuiet /\ CollectorsQuiet /\ PureQuiet /\ HostQuiet /\ FileQuiet /\ HookQuiet

SpecIPC == InitIPC /\ [][IpcNext]_vars

\* the timer callback always runs: setTimeout is never cleared
SpecIPCFair == InitIPC /\ [][IpcNext]_vars /\ WF_vars(TimerFireAny) /\ WF_vars(HostReturn)

\* what localStorage may hold under 'gb.profile' when the page loads
StoredProfileInputs ==
  { <<"e", "s", "p", "o", "r", "t", "s">>,
    <<"w", "a", "r", "z", "o", "n", "e">>,
    <<"B", "a", "t", "t", "l", "e", "f", "i", "e", "l", "d", " ", "6">>,
    <<"a", "r", "c", "-", "r", "a", "i", "d", "e", "r", "s">>,
    <<"S", "t", "r", "e", "a", "m", " ", "+", " ", "G", "a", "m", "e">>,
    <<"B", "F", "6">>,
    <<"n", "o", "p", "e">>,
    <<"c", "o", "n", "s", "t", "r", "u", "c", "t", "o", "r">>,
    <<"_", "_", "p", "r", "o", "t", "o", "_", "_">>,
    <<>> }

\* identifiers handed to applyPreset
ProfileInputs ==
  { <<"e", "s", "p", "o", "r", "t", "s">>,
    <<"b", "a", "t", "t", "l", "e", "f", "i", "e", "l", "d", "6">>,
    <<"E", "-", "S", "p", "o", "r", "t", "s">>,
    <<"S", "t", "r", "e", "a", "m", " ", "+", " ", "G", "a", "m", "e">>,
    <<"b", "f", "6">>,
    <<"a", "r", "c", "_", "r", "a", "i", "d", "e", "r", "s">>,
    <<"S", "i", "l", "e", "n", "c", "i", "o", "s", "o">>,
    <<"n", "o", "p", "e">>,
    <<"c", "o", "n", "s", "t", "r", "u", "c", "t", "o", "r">>,
    <<"t", "o", "S", "t", "r", "i", "n", "g">>,
    <<>> }

\* identifiers handed to runTurbo
TurboInputs ==
  { <<"e", "s", "p", "o", "r", "t", "s">>,
    <<"b", "a", "t", "t", "l", "e", "f", "i", "e", "l", "d", "6">>,
    <<"B", "a", "t", "t", "l", "e", "f", "i", "e", "l", "d", " ", "6">>,
    <<"w", "a", "r", "z", "o", "n", "e">>,
    <<"s", "i", "l", "e", "n", "t">>,
    <<"n", "o", "p", "e">>,
    <<"c", "o", "n", "s", "t", "r", "u", "c", "t", "o", "r">> }

InitProfiles ==
  /\ IpcQuiet
  /\ PureQuiet
  /\ HostQuiet
  /\ FileQuiet
  /\ HookQuiet
  /\ CollectorsQuiet
  /\ RendererInit
  /\ bridge \in Bridges
  /\ hostAdmin \in BOOLEAN
  /\ variant = "main"
  /\ store \in {EmptyStore} \cup {ProfileKey :> s : s \in StoredProfileInputs}

ProfilesNext ==
  \/ LoadProfile
  \/ \E id \in ProfileInputs : ApplyPresetCall(id)
  \/ \E ok \in BOOLEAN : ApplyPresetEnv(ok)
  \/ ApplyPresetCommand
  \/ \E fail \in BOOLEAN : ApplyPresetFinish(fail)

SpecProfiles == InitProfiles /\ [][ProfilesNext]_vars

\* identifiers handed to applyPreset of either code base
ApplyInputs ==
  { KeyEsports, <<"E", "-", "S", "p", "o", "r", "t", "s">>,
    <<"S", "t", "r", "e", "a", "m", " ", "+", " ", "G", "a", "m", "e">>, <<"b", "f", "6">>,
    <<"n", "o", "p", "e">>, <<"c", "o", "n", "s", "t", "r", "u", "c", "t", "o", "r">>,
    <<"C", "o", "n", "s", "t", "r", "u", "c", "t", "o", "r">>, <<"_", "_", "p", "r", "o", "t", "o", "_", "_">> }

ApplyStoredInputs ==
  { EmptyStore, ProfileKey :> KeySilent, ProfileKey :> <<"B", "a", "t", "t", "l", "e", "f", "i", "e", "l", "d", " ", "6">> }

InitApply ==
  /\ IpcQuiet
  /\ PureQuiet
  /\ HostQuiet
  /\ FileQuiet
  /\ HookQuiet
  /\ CollectorsQuiet
  /\ RendererInit
  /\ bridge \in Bridges
  /\ hostAdmin \in BOOLEAN
  /\ variant \in {"main", "restore"}
  /\ store \in ApplyStoredInputs

ApplyNext ==
  \/ LoadProfile
  \/ \E id \in ApplyInputs : ApplyPresetCall(id)
  \/ \E ok \in BOOLEAN : ApplyPresetEnv(ok)
  \/ ApplyPresetCommand
  \/ \E fail \in BOOLEAN : ApplyPresetFinish(fail)

SpecApply == InitApply /\ [][ApplyNext]_vars

\* names handed to normalizeProfileName: the keys, the display names, the
\* aliases, the names every object inherits, each also with a separator or
\* a letter put before or after it
NormalizeBases ==
  PresetKeysMain \cup {q[1] : q \in normalizeMap} \cup {q[2] : q \in presetDisplayNames}
    \cup ObjectPrototypeNames \cup {<<>>, <<"n", "o", "p", "e">>, <<"C", "O", "N", "S", "T", "R", "U", "C", "T", "O", "R">>}

NormalizeInputs ==
  NormalizeBases
    \cup {<<c>> \o b : c \in {"-", "x"}, b \in NormalizeBases}
    \cup {b \o <<c>> : c \in {" ", "x"}, b \in NormalizeBases}

InitNormalize ==
  /\ IpcQuiet
  /\ RendererQuiet
  /\ CollectorsQuiet
  /\ HostQuiet
  /\ FileQuiet
  /\ HookQuiet
  /\ \E name \in NormalizeInputs :
       pure = [fn |-> "normalizeProfileName", pc |-> "arg", name |-> name,
               result |-> Null, again |-> Null]

NormalizeNext == NormalizeCall \/ NormalizeAgain

SpecNormalize == InitNormalize /\ [][NormalizeNext]_vars

\* setFanSpeed on an integer, or on the fanSpeed of a preset
InitFan ==
  /\ IpcQuiet
  /\ RendererQuiet
  /\ CollectorsQuiet
  /\ HostQuiet
  /\ FileQuiet
  /\ HookQuiet
  /\ \E percent \in ((0 - MaxPercent) .. MaxPercent)
                     \cup {fanSpeed(k) : k \in PresetKeysMain} :
       pure = [fn |-> "setFanSpeed", pc |-> "arg", percent |-> percent,
               result |-> [ok |-> FALSE, percent |-> 0]]

FanNext == SetFanSpeedCall

SpecFan == InitFan /\ [][FanNext]_vars

\* the host from its launch, on either platform
InitBoot ==
  /\ IpcInit
  /\ RendererQuiet
  /\ CollectorsQuiet
  /\ PureQuiet
  /\ FileQuiet
  /\ HookQuiet
  /\ host = HostLaunched

BootNext ==
  \/ WhenReady
  \/ \E code \in ExitCodes : ProbeExit(code)
  \/ ProbeError
  \/ ProbeTimeout
  \/ BootContinue
  \/ GetEnvironment
  \/ \E throws \in BOOLEAN : RequestElevation(throws)

SpecBoot == InitBoot /\ [][BootNext]_vars

\* the probe's 3-second timer is never cleared: its callback always runs
SpecBootFair == InitBoot /\ [][BootNext]_vars /\ WF_vars(ProbeTimeout)

\* paths handed to 'read-file': harmless ones, denied ones in several cases,
\* ones that normalize into or out of a denied name, and values that are
\* no strings
PathInputs ==
  { PathArg(<<<<"t", "m", "p">>, <<"l", "o", "g", ".", "t", "x", "t">>>>),
    PathArg(<<<<"C", ":">>, <<"U", "s", "e", "r", "s">>, <<"m", "e">>, <<"a", ".", "t", "x", "t">>>>),
    PathArg(<<<<"C", ":">>, <<"W", "I", "N", "D", "O", "W", "S">>, <<"w", "i", "n", ".", "i", "n", "i">>>>),
    PathArg(<<<<"c", ":">>, <<"W", "i", "n", "d", "o", "w", "s">>, <<"S", "y", "s", "t", "e", "m", "3", "2">>, <<"d", "r", "i", "v", "e", "r", "s">>>>),
    PathArg(<<<<"D", ":">>, <<"P", "r", "o", "g", "r", "a", "m", " ", "F", "i", "l", "e", "s">>, <<"a", "p", "p">>, <<"c", "f", "g">>>>),
    PathArg(<<<<"C", ":">>, <<"D", "o", "c", "u", "m", "e", "n", "t", "s", " ", "a", "n", "d", " ", "S", "e", "t", "t", "i", "n", "g", "s">>, <<"x">>>>),
    PathArg(<<<<"t", "m", "p">>, <<".", ".">>, <<"u", "s", "e", "r", "s">>, <<"a">>>>),
    PathArg(<<<<"u", "s", "e", "r", "s">>, <<".", ".">>, <<"t", "m", "p">>>>),
    PathArg(<<<<"w", "i", "n">>, <<".", ".">>, <<"d", "o", "w", "s">>, <<"a">>>>),
    PathArg(<<<<"t", "m", "p">>, <<".">>, <<"a", ".", "t", "x", "t">>>>),
    PathArg(<<<<".", ".">>, <<"a", ".", "t", "x", "t">>>>),
    PathArg(<<<<"D", ":">>, <<"g", "a", "m", "e", "s">>, <<".", ".">>, <<".", ".">>, <<"x">>>>),
    PathArg(<<<<"D", ":">>, <<"d", "a", "t", "a">>, <<"a", ".", "j", "s", "o", "n">>>>),
    PathArg(<<<<"o", "p", "t">>, <<"t", "o", "o", "l", "s">>, <<"L", "H", "M">>, <<"s", "e", "n", "s", "o", "r", "s", ".", "j", "s", "o", "n">>>>),
    PathArg(<<<<"D", ":">>, <<"s", "u", "p", "e", "r", "u", "s", "e", "r", "s", ".", "t", "x", "t">>>>),
    PathArg(<<<<"e", ":">>, <<"p", "r", "o", "g", "s">>, <<"w", "i", "n", "d", "o", "w">>, <<"b">>>>),
    PathArg(<<<<".">>>>),
    PathArg(<<<<"D", ":">>, <<>>, <<"a">>>>),
    PathArg(<<>>), NonPath("undefined"), NonPath("number"), NonPath("object") }

FileSizes == {0, MaxFileSize, MaxFileSize + 1}

InitFile ==
  /\ IpcQuiet
  /\ RendererQuiet
  /\ CollectorsQuiet
  /\ PureQuiet
  /\ HostQuiet
  /\ HookQuiet
  /\ \E filePath \in PathInputs, via \in {"preload", "direct"} :
       rf = [pc |-> "arg", via |-> via, filePath |-> filePath, invoked |-> FALSE,
             normalizedPath |-> <<>>, stats |-> 0, reads |-> 0, size |-> 0,
             reply |-> [success |-> FALSE, has |-> "none"]]

FileNext ==
  \/ ReadFileCall
  \/ \E rejected \in BOOLEAN, size \in FileSizes : StatSettles(rejected, size)
  \/ \E rejected \in BOOLEAN : ReadFileSettles(rejected)

SpecFile == InitFile /\ [][FileNext]_vars

\* what localStorage holds when the page is loaded: no profile, a preset key,
\* a display name, names every object inherits; no Turbo data, text that is
\* no JSON, an empty object, and data written 1.5 s and 61.5 s before the
\* load and, after the clock was set back, 2.5 s after it
HookProfileInputs ==
  { <<>>, KeyEsports, <<"E", "-", "S", "p", "o", "r", "t", "s">>, <<"c", "o", "n", "s", "t", "r", "u", "c", "t", "o", "r">>,
    <<"t", "o", "S", "t", "r", "i", "n", "g">> }

HookTurboInputs ==
  { <<"o", "o", "p", "s">>, <<"{", "}">>,
    JsonStringify(StartTime - 1500, KeyEsports),
    JsonStringify(StartTime - 61500, KeyEsports),
    JsonStringify(StartTime + 2500, KeyEsports) }

HookStores ==
  {EmptyStore}
    \cup {ProfileKey :> p : p \in HookProfileInputs}
    \cup {TurboKey :> t : t \in HookTurboInputs}
    \cup {(ProfileKey :> p) @@ (TurboKey :> t) :
            p \in {KeyEsports, <<"c", "o", "n", "s", "t", "r", "u", "c", "t", "o", "r">>}, t \in HookTurboInputs}

InitHook ==
  /\ IpcQuiet
  /\ CollectorsQuiet
  /\ PureQuiet
  /\ HostQuiet
  /\ FileQuiet
  /\ RendererStart
  /\ now = StartTime
  /\ bridge = "none"
  /\ hostAdmin = FALSE
  /\ variant = "main"
  /\ store \in HookStores
  /\ ut = NoUseTurbo
  /\ ue = NoUseEngine

HookNext ==
  \/ UseTurboMount
  \/ UseTurboRender
  \/ UseTurboTimer
  \/ UseTurboIdle
  \/ UseTurboRun
  \/ \E i \in 1..MaxRuns, errors \in {0, 1} : UseTurboReturn(i, errors)
  \/ UseTurboReload

SpecHook == InitHook /\ [][HookNext]_vars

\* the boost's functions called at any of the instants, nothing else running
BoostKeyInputs == { KeyEsports, KeySilent }

ClockSteps == { 1, ClockGrid - 1, ClockGrid }

InitBoostLife ==
  /\ IpcQuiet
  /\ CollectorsQuiet
  /\ HostQuiet
  /\ FileQuiet
  /\ HookQuiet
  /\ RendererQuiet
  /\ pure = [fn |-> "getActiveTelemetryBoost", result |-> NullBoost, at |-> 0]

BoostLifeNext ==
  \/ \E k \in BoostKeyInputs, tempGuard \in BOOLEAN, r3 \in {TempRange - 1} :
       ActivateTelemetryBoostCall(k, tempGuard, 0, r3)
  \/ GetActiveTelemetryBoostCall
  \/ \E d \in ClockSteps : BoostTick(d)

SpecBoostLife == InitBoostLife /\ [][BoostLifeNext]_vars

\* one useEngine instance in either code base, with any bridge
InitEngine ==
  /\ IpcQuiet
  /\ CollectorsQuiet
  /\ PureQuiet
  /\ HostQuiet
  /\ FileQuiet
  /\ RendererInit
  /\ bridge \in Bridges
  /\ hostAdmin = FALSE
  /\ variant \in {"main", "restore"}
  /\ store = EmptyStore
  /\ ut = NoUseTurbo
  /\ ue = NoUseEngine

EngineNext ==
  \/ UseEngineMount
  \/ UseEngineInit
  \/ \E i \in 1..MaxInits, rejected \in BOOLEAN : InitEngineSettles(i, rejected)
  \/ \E i \in 1..MaxInits : EnvironmentReplies(i)
  \/ \E i \in 1..MaxInits, rejected \in BOOLEAN : ProviderLoads(i, rejected)
  \/ \E i \in 1..MaxInits : EngineWatchdog(i)
  \/ \E id \in 1..MaxInits : SensorPoll(id)
  \/ UseEngineUnmount

SpecEngine == InitEngine /\ [][EngineNext]_vars

\* the collectors with callbacks registered and the interval firing
InitDeliver ==
  /\ IpcQuiet
  /\ PureQuiet
  /\ HostQuiet
  /\ FileQuiet
  /\ HookQuiet
  /\ RendererInit
  /\ hostAdmin = FALSE
  /\ variant = "main"
  /\ store = EmptyStore
  /\ CollectorsInit
  /\ hasWindow = TRUE
  /\ bridge = "preload"

DeliverNext ==
  \/ StartCollectors
  \/ \E pmSpawns \in BOOLEAN :
       StartCollectorsFinish(TRUE, TRUE, pmSpawns, FALSE, FALSE)
  \/ StopCollectors
  \/ StopCollectorsFinish
  \/ \E fn \in Callbacks : OnTelemetry(fn)
  \/ \E r \in 1..MaxRegistrations : Unsubscribe(r)
  \/ \E id \in 1..MaxStarts : CollectTick(id)
  \/ CollectDeliver

SpecDeliver == InitDeliver /\ [][DeliverNext]_vars

InitTurbo ==
  /\ IpcQuiet
  /\ PureQuiet
  /\ HostQuiet
  /\ FileQuiet
  /\ HookQuiet
  /\ CollectorsQuiet
  /\ RendererInit
  /\ bridge \in Bridges
  /\ hostAdmin = FALSE
  /\ variant \in {"main", "restore"}
  /\ store = EmptyStore

TurboNext ==
  \/ \E id \in TurboInputs : RunTurbo(id)
  \/ TurboStartOperation
  \/ \E reply \in {"object", "marker", "other", "blank", "reject"} : WinOptReply(reply)
  \/ \E hot \in BOOLEAN, fail \in BOOLEAN : TurboSettleOperation(hot, fail)
  \/ \E r5 \in 0..(RamRange - 1), r3 \in 0..(TempRange - 1) : TurboFinish(r5, r3)
  \/ Tick

SpecTurbo == InitTurbo /\ [][TurboNext]_vars

\* the renderer as a whole: every operation that touches localStorage or the
\* bridge, one at a time, on a few representative inputs
UiStoredInputs ==
  { EmptyStore,
    ProfileKey :> <<"B", "a", "t", "t", "l", "e", "f", "i", "e", "l", "d", " ", "6">>,
    ProfileKey :> <<"n", "o", "p", "e">>,
    PrevPowerPlanKey :> PlanText }

UiProfileInputs == { KeyEsports, <<"n", "o", "p", "e">> }

UiTurboInputs == { KeyEsports }

InitUI ==
  /\ IpcQuiet
  /\ PureQuiet
  /\ HostQuiet
  /\ FileQuiet
  /\ HookQuiet
  /\ CollectorsQuiet
  /\ RendererInit
  /\ bridge \in Bridges
  /\ hostAdmin \in BOOLEAN
  /\ variant = "main"
  /\ store \in UiStoredInputs

UiNext ==
  \/ LoadProfile
  \/ \E id \in UiProfileInputs : ApplyPresetCall(id)
  \/ \E ok \in BOOLEAN : ApplyPresetEnv(ok)
  \/ ApplyPresetCommand
  \/ \E fail \in BOOLEAN : ApplyPresetFinish(fail)
  \/ \E id \in UiTurboInputs : RunTurbo(id)
  \/ TurboStartOperation
  \/ TurboSettleOperation(FALSE, FALSE)
  \/ \E r5 \in 0..(RamRange - 1), r3 \in 0..(TempRange - 1) : TurboFinish(r5, r3)
  \/ \E fn \in {"applyPowerPlan", "restoreAll"} : DirectCall(fn)
  \/ DirectReturn
  \/ \E op \in FacadeOperations : ExecuteOptimization(op)
  \/ ExecuteOptimizationReturn
  \/ \E reply \in {"object", "marker", "other", "blank", "reject"} : WinOptReply(reply)

SpecUI == InitUI /\ [][UiNext]_vars

InitCollect ==
  /\ IpcQuiet
  /\ PureQuiet
  /\ HostQuiet
  /\ FileQuiet
  /\ HookQuiet
  /\ RendererInit
  /\ hostAdmin = FALSE
  /\ variant = "main"
  /\ store = EmptyStore
  /\ CollectorsInit
  /\ hasWindow \in BOOLEAN
  /\ bridge \in (IF hasWindow THEN Bridges ELSE {"none"})

CollectNext ==
  \/ StartCollectors
  \/ \E importOk \in BOOLEAN, pmExists \in BOOLEAN, pmSpawns \in BOOLEAN,
        lhmExists \in BOOLEAN, lhmSpawns \in BOOLEAN :
       StartCollectorsFinish(importOk, pmExists, pmSpawns, lhmExists, lhmSpawns)
  \/ StopCollectors
  \/ StopCollectorsFinish

SpecCollect == InitCollect /\ [][CollectNext]_vars


(***************************************************************************)
(* Claims about the bridge and the host handler                            *)
(***************************************************************************)
ClaimDenylist ==
  { <<"f", "o", "r", "m", "a", "t">>, <<"d", "e", "l", " ">>, <<"r", "m", " ">>,
    <<"r", "m", "d", "i", "r">>, <<"s", "h", "u", "t", "d", "o", "w", "n">>,
    <<"r", "e", "s", "t", "a", "r", "t">>, <<"r", "e", "b", "o", "o", "t">>,
    <<"t", "a", "s", "k", "k", "i", "l", "l", " ", "/", "f">>,
    <<"n", "e", "t", " ", "u", "s", "e", "r">>,
    <<"n", "e", "t", " ", "l", "o", "c", "a", "l", "g", "r", "o", "u", "p">> }

ClaimOnDenylist(cmd) ==
  /\ cmd.t = "string"
  /\ \E d \in ClaimDenylist : Includes(ToLowerCase(CmdText(cmd)), d)

ClaimHostDenied(cmd) ==
  \/ cmd.t # "string"
  \/ StrLen(cmd) > 1000
  \/ ClaimOnDenylist(cmd)

\* C1: a command received by the host 'run-powershell' handler that is not a
\* string, is longer than 1000 characters, or whose lower-cased text contains
\* a denylist entry is answered with {stdout:'', stderr:<message>, code:1,
\* duration:0}, and no shell process is spawned for it.
C1_DeniedCommandNeverSpawns ==
  (hpc # "idle" /\ ClaimHostDenied(hcmd)) =>
    /\ hpc = "returned"
    /\ hresult.stdout = <<>>
    /\ Len(hresult.stderr) = 1
    /\ hresult.code = 1
    /\ hresult.duration = 0
    /\ ~hspawned
    /\ ~child.spawned

\* a denylist entry written in upper case was received and answered
C1_Witness ==
  /\ hpc = "returned"
  /\ hcmd.t = "string"
  /\ StrLen(hcmd) <= 1000
  /\ ClaimOnDenylist(hcmd)
  /\ ToLowerCase(hcmd.body) # hcmd.body
  /\ hresult.code = 1

\* C2: runPowerShellCommand resolves once per command and the first of exit,
\* error and timer decides the result: a timer that fires before exit and
\* error kills the child and yields code 124 with the timeout message appended
\* to stderr; an exit first yields its exit code, an error first yields code 1;
\* no later event changes the resolved result; every started command resolves.
C2_FirstEventDecides ==
  /\ [](resolveCalls <= 1)
  /\ [][ (resolveCalls >= 1 /\ calls' = calls) =>
           (presult' = presult /\ resolveCalls' = resolveCalls) ]_vars
  /\ [][ (child.spawned /\ child.timer = "pending" /\ child'.timer = "fired"
            /\ ~child.exited /\ ~child.errored) =>
           (/\ child'.killed
            /\ resolveCalls' = 1
            /\ presult'.code = 124
            /\ presult'.stderr = Append(stderr, MsgTimeout)
            /\ presult'.stdout = stdout) ]_vars
  /\ [][ (child.spawned /\ ~child.exited /\ child'.exited
            /\ ~child.errored /\ child.timer = "pending") =>
           (/\ resolveCalls' = 1
            /\ presult'.code \in {0, 1}
            /\ presult'.stderr = stderr
            /\ ~child'.killed) ]_vars
  /\ [][ (child.spawned /\ ~child.errored /\ child'.errored
            /\ ~child.exited /\ child.timer = "pending") =>
           (resolveCalls' = 1 /\ presult'.code = 1) ]_vars
  /\ ((hpc = "running") ~> (resolveCalls = 1 /\ hpc = "returned"))

\* the timer fired first, the killed child's exit arrived afterwards
C2_Witness ==
  /\ child.spawned
  /\ child.killed
  /\ child.exited
  /\ resolveCalls = 1
  /\ presult.code = 124
  /\ hpc = "returned"

ClaimBridgeInvalid(cmd) ==
  cmd.t # "string" \/ StrLen(cmd) = 0 \/ StrLen(cmd) > 1000

\* C3: backend.runPS never rejects and resolves to {stdout, stderr, code,
\* duration}; a command that is not a string, is empty or is longer than 1000
\* characters resolves with code 1 and the validation message without any
\* 'run-powershell' message being sent; a failed IPC call resolves with code 1.
C3_RunPSNeverRejects ==
  /\ bpc # "rejected"
  /\ bpc = "resolved" =>
       /\ DOMAIN bresult = {"stdout", "stderr", "code", "duration"}
       /\ bresult.stdout \in Seq(STRING)
       /\ bresult.stderr \in Seq(STRING)
       /\ bresult.code \in Nat
       /\ bresult.duration \in Nat
  /\ (bpc # "idle" /\ ClaimBridgeInvalid(bcmd)) =>
       /\ bpc = "resolved"
       /\ bresult.code = 1
       /\ bresult.stderr \in {<<MsgNotString>>, <<MsgLength>>}
       /\ ~ipcSent
       /\ ~chan.full
       /\ hpc = "idle"
  /\ (bpc = "resolved" /\ ipcSent /\ hpc = "idle") => bresult.code = 1

\* an over-long command was refused by the bridge
C3_Witness ==
  /\ bpc = "resolved"
  /\ bcmd.t = "string"
  /\ StrLen(bcmd) > 1000
  /\ bresult.code = 1
  /\ ~ipcSent


(***************************************************************************)
(* Claims about the renderer: localStorage, profiles, Turbo, the facade    *)
(***************************************************************************)
ClaimTwoKeys == {"gb.profile", "gb.turbo"}
ClaimThreeKeys == {"gb.profile", "gb.turbo", "gb.prevPowerPlan"}

\* C4 as stated: across load, applyPreset, runTurbo, applyPowerPlan and
\* restoreAll the only keys written or removed are 'gb.profile' and 'gb.turbo'
C4_OnlyProfileAndTurboKeys == touched \subseteq ClaimTwoKeys

\* C4 amended: the keys written or removed are 'gb.profile', 'gb.turbo' and
\* 'gb.prevPowerPlan' (saved by applyPowerPlan, removed by restoreAll), and
\* no key outside these three is ever created
C4_ThreeStorageKeys ==
  /\ touched \subseteq ClaimThreeKeys
  /\ DOMAIN store \subseteq ClaimThreeKeys

\* load rewrote the profile, a Turbo run stored its record and its power-plan
\* operation saved the previous plan
C4_Witness ==
  /\ touched = ClaimThreeKeys
  /\ tb.pc = "returned"
  /\ DOMAIN store = ClaimThreeKeys

ClaimPresetKeys ==
  { KeyEsports, KeyBattleRoyale, KeyAaa, KeyBattlefield6, KeyStreamGame,
    KeySilent, KeyArcRiders, KeyWarzone }

ClaimActiveProfileOk ==
  activeProfile = Null
    \/ (activeProfile.t = "string" /\ activeProfile.s \in ClaimPresetKeys)

\* C5 as stated: once load has run, the stored 'gb.profile' is absent or a
\* preset key and activeProfile is null or a preset key, whatever applyPreset
\* calls follow
C5_StoredProfileIsPresetKey ==
  loaded =>
    /\ "gb.profile" \in DOMAIN store => store["gb.profile"] \in ClaimPresetKeys
    /\ ClaimActiveProfileOk

\* C5 amended: once load has run, the stored 'gb.profile' is absent, the
\* empty string (which load leaves in place) or a preset key, and
\* activeProfile is null or a preset key
C5_StoredProfileEmptyOrPresetKey ==
  loaded =>
    /\ "gb.profile" \in DOMAIN store =>
         store["gb.profile"] \in ClaimPresetKeys \cup {<<>>}
    /\ ClaimActiveProfileOk

\* a legacy display name was rewritten on load and a failed applyPreset
\* followed
C5_Witness ==
  /\ loaded
  /\ ap.pc = "done" /\ ap.result = "failure"
  /\ touched = {"gb.profile"}
  /\ "gb.profile" \in DOMAIN store /\ store["gb.profile"] = KeyBattlefield6
  /\ activeProfile = Str(KeyBattlefield6)

ClaimOperationList ==
  IF variant = "main"
    THEN <<"freeRam", "closeBackgroundApps", "setProcessPriority",
           "applyPowerPlan", "clearTempCaches", "setFanSpeed", "applyGpuBoost">>
    ELSE <<"freeRam", "closeBackgroundApps", "setCpuPriority", "applyPowerPlan",
           "setFanSpeed", "applyGpuBoost", "cleanTempCaches", "networkBoostBasic">>

ClaimSteps == IF variant = "main" THEN 7 ELSE 8

ClaimValidRun == tb.pc \in {"running", "returned"} /\ tb.key \in PresetKeys(variant)

\* C6: a runTurbo on a valid profile starts the operations of its list in
\* list order, one at a time (an operation starts only when every earlier
\* one has been counted), a failure does not stop the rest, and when it
\* returns every operation has run once, steps is 7 (src/) or 8
\* (temp-project-restore/) and 0 <= errors <= steps
C6_TurboRunsWholeList ==
  ClaimValidRun =>
    /\ Len(tb.started) <= Len(ClaimOperationList)
    /\ tb.started = SubSeq(ClaimOperationList, 1, Len(tb.started))
    /\ Len(tb.started) = tb.steps + (IF tb.active THEN 1 ELSE 0)
    /\ 0 <= tb.errors /\ tb.errors <= tb.steps
    /\ tb.pc = "returned" =>
         /\ tb.started = ClaimOperationList
         /\ tb.steps = ClaimSteps
         /\ ~tb.active

\* a run of temp-project-restore/ returned after some operations failed
C6_Witness ==
  /\ variant = "restore"
  /\ tb.pc = "returned"
  /\ tb.key = KeyEsports
  /\ tb.steps = 8
  /\ tb.errors = 2

\* C7 as stated: the errors a runTurbo returns is the number of operations
\* whose underlying operation failed (returned false or threw)
C7_ErrorsCountFailedOperations ==
  tb.pc = "returned" => tb.errors = tb.failed

ClaimFpsBoost(key) ==
  CASE key \in {KeyEsports, KeyBattleRoyale, KeyWarzone} -> 5
    [] key = KeyAaa -> 3
    [] key = KeyBattlefield6 -> 6
    [] key \in {KeyStreamGame, KeyArcRiders} -> 4
    [] key = KeySilent -> 0
    [] OTHER -> 4

\* C8: the step in which a runTurbo returns activates a boost fixed by the
\* key alone: fpsBoost by the table, tempGuard exactly for 'battlefield6',
\* tempReduction 0 without tempGuard and 2..4 with it, ramReduction 8..12,
\* duration 60000, whatever steps and errors are
C8_TelemetryBoostIndependent ==
  [][ (tb.pc = "running" /\ tb'.pc = "returned") =>
        /\ activeTelemetry'.set
        /\ activeTelemetry'.fpsBoost = ClaimFpsBoost(tb'.key)
        /\ tb'.tempGuard = (tb'.key = KeyBattlefield6)
        /\ ~tb'.tempGuard => activeTelemetry'.tempReduction = 0
        /\ tb'.tempGuard => activeTelemetry'.tempReduction \in 2..4
        /\ activeTelemetry'.ramReduction \in 8..12
        /\ activeTelemetry'.duration = 60000 ]_vars

\* a run with failed operations activated the full boost
C8_Witness ==
  /\ tb.pc = "returned"
  /\ tb.key = KeyBattlefield6
  /\ tb.errors > 0
  /\ activeTelemetry.set
  /\ activeTelemetry.fpsBoost = 6
  /\ activeTelemetry.tempReduction = 4
  /\ activeTelemetry.ramReduction = 12

\* C11 as stated: applyPreset never rejects and leaves applying false; a call
\* that resolves with success false leaves the stored 'gb.profile' and
\* activeProfile as they were before the call; they change only in a call
\* that resolves with success true, and then both equal the normalized key,
\* which is a key of the preset table
C11_ApplyPresetOutcome ==
  /\ [](ap.pc = "done" =>
          /\ ap.result \in {"success", "failure"}
          /\ ~applying
          /\ ap.result = "failure" =>
               store = ap.prevStore /\ activeProfile = ap.prevActive
          /\ ap.result = "success" =>
               /\ "gb.profile" \in DOMAIN store
               /\ store["gb.profile"] = ap.key
               /\ activeProfile = Str(ap.key)
               /\ ap.key \in PresetKeys(variant))
  /\ [][ (loaded /\ (store' # store \/ activeProfile' # activeProfile))
          => ap'.pc = "done" /\ ap'.result = "success" ]_vars

ClaimDesktopAdmin == bridge # "none" /\ hostAdmin

\* C10 as stated: applyPreset and the facade operations invoke
\* window.backend.runPS only in a desktop environment with administrator
\* rights; anywhere else they return a fabricated result without the bridge
C10_BridgeOnlyWhenDesktopAdmin ==
  ~ClaimDesktopAdmin =>
    /\ psInvoked \cap {"applyPreset", "facade"} = {}
    /\ ex.pc = "done" => ~ex.real

(***************************************************************************)
(* Claims about the telemetry collectors                                   *)
(***************************************************************************)
\* C9: the step that completes a startCollectors call which found the
\* collectors stopped leaves isRunning true and a 1000 ms interval installed;
\* simulationMode is false only if the call ran on the desktop and spawned at
\* least one tool, and is true off the desktop, with no tool spawned, or
\* when start-up threw
C9_StartLeavesCollectorsRunning ==
  [][ lastStart'.n = lastStart.n + 1 =>
        /\ state'.isRunning
        /\ \E t \in timers' : t.id = state'.intervalId /\ t.ms = 1000
        /\ ~state'.simulationMode => lastStart'.desktop /\ lastStart'.spawned >= 1
        /\ (~lastStart'.desktop \/ lastStart'.spawned = 0 \/ lastStart'.threw)
             => state'.simulationMode ]_vars

\* a desktop start spawned one tool and left the real mode on
C9_Witness ==
  /\ lastStart.n = 1
  /\ lastStart.desktop
  /\ lastStart.spawned = 1
  /\ state.isRunning
  /\ ~state.simulationMode
  /\ timers # {}

\* C12: under every interleaving of startCollectors and stopCollectors calls
\* at most one interval timer and at most one process per tool exist, and
\* every interval and process that exists is the one the collector state
\* refers to, so that the next stopCollectors stops them all
C12_OneIntervalOneProcessPerTool ==
  /\ Cardinality(timers) <= 1
  /\ \A t \in timers : t.id = state.intervalId
  /\ \A tool \in {PresentMon, LibreHardwareMonitor} :
       Cardinality({p \in procs : p.tool = tool}) <= 1
  /\ \A p \in procs :
       p.id = (IF p.tool = PresentMon THEN state.presentMonProcess
                                     ELSE state.lhmProcess)

\* C13: normalizeProfileName returns null or a preset key for every name; it
\* returns k for every preset key k and for the display name of k; applied
\* to a non-null value of its own it returns that value again
C13_NormalizeProfileName ==
  (pure.fn = "normalizeProfileName" /\ pure.pc # "arg") =>
     /\ \/ pure.result = Null
        \/ pure.result.t = "string" /\ pure.result.s \in PresetKeysMain
     /\ pure.name \in PresetKeysMain => pure.result = Str(pure.name)
     /\ \A q \in presetDisplayNames : pure.name = q[2] => pure.result = Str(q[1])
     /\ pure.pc = "twice" => pure.again = pure.result

\* C14: the fanSpeed of every preset lies in 0..100, and setFanSpeed returns
\* ok with a percent in 0..100 for every integer: 0 below 0, 100 above 100,
\* the argument itself in between
C14_FanSpeedWithinPercentRange ==
  /\ \A k \in PresetKeysMain : fanSpeed(k) \in 0..100
  /\ (pure.fn = "setFanSpeed" /\ pure.pc = "done") =>
       /\ pure.result.ok
       /\ pure.result.percent \in 0..100
       /\ pure.percent < 0 => pure.result.percent = 0
       /\ pure.percent > 100 => pure.result.percent = 100
       /\ pure.percent \in 0..100 => pure.result.percent = pure.percent

\* setFanSpeed was called with more than 100 and answered 100
C14_Witness ==
  /\ pure.fn = "setFanSpeed"
  /\ pure.pc = "done"
  /\ pure.percent > 100
  /\ pure.result.percent = 100

\* C15: the handlers are registered only after the administrator probe has
\* completed and isAdmin holds the probe's result from then on; every
\* 'get-environment' reply reports it; 'request-elevation' answers success
\* without spawning or quitting when isAdmin is true, spawns the elevated
\* copy and quits only when isAdmin is false on Windows, and answers
\* success false off Windows when isAdmin is false
C15_ElevationFollowsProbe ==
  /\ [](host.phase # "up" =>
          /\ host.handlers => host.resolved /\ hostAdmin = host.value
          /\ host.envReply.set => host.envReply.isAdmin = host.value
          /\ host.elevReply.set /\ host.elevReply.isAdmin => host.elevReply.success)
  /\ [][ (host.phase # "up" /\ host.handlers) =>
           /\ hostAdmin' = hostAdmin
           /\ host'.value = host.value
           /\ (host'.elevated # host.elevated \/ host'.phase # host.phase) =>
                /\ ~hostAdmin /\ isWindows
                /\ host'.elevated = host.elevated + 1
                /\ host'.phase = "quit"
                /\ host'.elevReply.success ]_vars
  /\ \A throws \in BOOLEAN :
       /\ requestElevationHandler(FALSE, FALSE, throws)
            = [success |-> FALSE, spawned |-> 0, quit |-> FALSE]
       /\ \A isWin \in BOOLEAN :
            requestElevationHandler(TRUE, isWin, throws)
              = [success |-> TRUE, spawned |-> 0, quit |-> FALSE]

\* on Windows the probe answered false, and a 'request-elevation' spawned the
\* elevated copy and quit
C15_Witness ==
  /\ host.phase = "quit"
  /\ isWindows
  /\ ~hostAdmin
  /\ host.elevated = 1
  /\ host.elevReply.set
  /\ host.elevReply.success

\* C16: 'read-file' never throws and answers {success, content} or
\* {success: false, error}; a path whose lower-cased normalized text contains
\* a denied name is answered with success false before any file-system call,
\* and a file larger than 1 MB is answered with success false without being
\* read
C16_ReadFileDeniesAndLimits ==
  rf.pc # "none" =>
    /\ rf.pc \in {"arg", "stat", "read", "done"}
    /\ rf.pc = "done" => rf.reply \in {Content, Failure}
    /\ rf.reply.success => rf.reads = 1 /\ rf.size <= MaxFileSize
    /\ (rf.pc # "arg" /\ rf.filePath.t = "string"
          /\ \E d \in dangerousPaths :
               Includes(ToLowerCase(pathNormalize(rf.filePath.segs)), d)) =>
         /\ rf.pc = "done"
         /\ ~rf.reply.success
         /\ rf.stats = 0
         /\ rf.reads = 0
    /\ rf.size > MaxFileSize =>
         /\ rf.pc = "done"
         /\ ~rf.reply.success
         /\ rf.reads = 0

\* the host refused an upper-case denied path without touching the file system
C16_Witness ==
  /\ rf.pc = "done"
  /\ rf.invoked
  /\ rf.normalizedPath = <<"C", ":", "\\", "W", "I", "N", "D", "O", "W", "S", "\\", "w", "i", "n", ".", "i", "n", "i">>
  /\ rf.stats = 0
  /\ ~rf.reply.success

\* C17: run is refused, without a call of runTurbo, whenever running is true
\* or cooldown > 0 or 'gb.profile' is absent or no preset key; when runTurbo
\* returns cooldown becomes 60 and running false; running is false too after
\* a run that threw; cooldown never goes below 0 and loses exactly 1 with
\* each second that passes while it is positive; at 0, with nothing running,
\* the button state is 'idle'
C17_RunRefusalAndCooldown ==
  /\ [](/\ ut.cooldown >= 0
        /\ (ut.mounted /\ Rendered /\ ~ut.running /\ ut.cooldown = 0)
             => getButtonState(ut.seenRunning, ut.seenCooldown) = "idle")
  /\ [][ ut'.calls = ut.calls + 1 =>
           /\ ( \/ ut.seenRunning
                \/ ut.seenCooldown > 0
                \/ ProfileKey \notin DOMAIN store
                \/ store[ProfileKey] \notin PresetKeysMain )
                => ut'.started = ut.started /\ ut'.last = "refused"
           /\ ut'.last = "threw" => ~ut'.running ]_vars
  /\ [][ (ut'.mounted /\ Len(ut'.inFlight) < Len(ut.inFlight))
           => ut'.cooldown = CooldownSeconds /\ ~ut'.running ]_vars
  /\ [][ (ut.mounted /\ ut.cooldown > 0 /\ now' # now)
           => now' = now + MsPerSecond /\ ut'.cooldown = ut.cooldown - 1 ]_vars

\* C18: at most one runTurbo execution is in progress at any time, also when
\* run is invoked again before the render that follows setRunning(true)
C18_OneTurboInProgress ==
  Len(ut.inFlight) <= 1

\* C19: 'gb.turbo' is written only when a Turbo sequence returns; on mount
\* cooldown is max(0, 60 - floor((now - lastTurboAt) / 1000)) for readable
\* data and 0 for unreadable or missing data, always within 0..60; and run
\* is refused during the 60 seconds that follow the last completed sequence
C19_CooldownSurvivesReload ==
  /\ [](ut.restored \in 0..CooldownSeconds)
  /\ [][ (~ut.mounted /\ ut'.mounted) =>
           LET turboData == getLastTurboData(LocalStorage)
           IN  ut'.cooldown =
                 IF turboData.kind = "data"
                   THEN Max(0, CooldownSeconds
                                 - ((now - turboData.lastTurboAt) \div MsPerSecond))
                   ELSE 0 ]_vars
  /\ [][ (TurboKey \in DOMAIN store' /\ (TurboKey \in DOMAIN store => store'[TurboKey] # store[TurboKey]))
           => /\ Len(ut'.inFlight) < Len(ut.inFlight)
              /\ \E i \in 1..Len(ut.inFlight) :
                   store'[TurboKey] = JsonStringify(now, ut.inFlight[i].key) ]_vars
  /\ [][ (ut'.calls = ut.calls + 1 /\ Rendered
           /\ getLastTurboData(LocalStorage).kind = "data"
           /\ now - getLastTurboData(LocalStorage).lastTurboAt \in 0..(CooldownSeconds * MsPerSecond - 1))
           => ut'.last = "refused" ]_vars

\* C20: runTurbo called with an identifier whose normalized form is no preset
\* key throws before any operation of the sequence is started, and leaves
\* 'gb.turbo' and the active telemetry boost as they were before the call
C20_UnknownProfileThrows ==
  /\ []((tb.pc # "idle" /\ tb.key \notin PresetKeys(variant)) =>
          /\ tb.pc = "thrown"
          /\ tb.idx = 0
          /\ tb.steps = 0
          /\ ~tb.active)
  /\ [][ (tb'.pc # "idle" /\ tb'.key \notin PresetKeys(variant)) =>
           /\ store' = store
           /\ activeTelemetry' = activeTelemetry ]_vars

\* C21: the telemetry boost has a fixed lifecycle measured from its activation
\* time: a call of getActiveTelemetryBoost returns the full activated values
\* while less than 60000 ms have elapsed; from 60000 ms to below 65000 ms it
\* returns each value scaled by 1 - (elapsed - 60000)/5000, between 0 and the
\* activated value and never above what an earlier call of the same lifecycle
\* returned; from 65000 ms on it returns null and clears the boost, and every
\* later call returns null until activateTelemetryBoost is called again,
\* which restarts the lifecycle at the new activation time.  Returned values
\* are held multiplied by 5000.
C21_BoostReturned ==
  pure' # pure \/ (activeTelemetry.set /\ ~activeTelemetry'.set)

C21_BoostValues(b) == <<b.fpsBoost, b.ramReduction, b.tempReduction>>

C21_TelemetryBoostLifecycle ==
  [][ /\ C21_BoostReturned =>
          LET elapsed == now - telemetryStartTime
              b == activeTelemetry
              r == pure'.result
          IN  /\ pure'.at = now
              /\ ~b.set => r = NullBoost /\ activeTelemetry' = b
              /\ b.set /\ elapsed < 60000 =>
                    /\ r.set
                    /\ \A i \in 1..3 : C21_BoostValues(r)[i] = C21_BoostValues(b)[i] * 5000
                    /\ activeTelemetry' = b
              /\ b.set /\ elapsed >= 60000 /\ elapsed < 65000 =>
                    /\ r.set
                    /\ \A i \in 1..3 :
                         /\ C21_BoostValues(r)[i] =
                              C21_BoostValues(b)[i] * (5000 - (elapsed - 60000))
                         /\ C21_BoostValues(r)[i] >= 0
                         /\ C21_BoostValues(r)[i] <= C21_BoostValues(b)[i] * 5000
                    /\ activeTelemetry' = b
              /\ b.set /\ elapsed >= 65000 =>
                    r = NullBoost /\ ~activeTelemetry'.set
              /\ b.set /\ r.set /\ pure.result.set /\ pure.at > telemetryStartTime =>
                    \A i \in 1..3 : C21_BoostValues(r)[i] <= C21_BoostValues(pure.result)[i]
      /\ (activeTelemetry'.set /\
            <<activeTelemetry, telemetryStartTime>>' # <<activeTelemetry, telemetryStartTime>>) =>
            telemetryStartTime' = now /\ activeTelemetry'.duration = 60000 ]_vars

\* a call during the fade returned values strictly between 0 and the activated ones
C21_Witness ==
  /\ pure.fn = "getActiveTelemetryBoost"
  /\ activeTelemetry.set
  /\ pure.result.set
  /\ pure.at - telemetryStartTime > 60000
  /\ pure.result.fpsBoost > 0
  /\ pure.result.fpsBoost < activeTelemetry.fpsBoost * 5000
  /\ pure.result.tempReduction < activeTelemetry.tempReduction * 5000

\* C22: once every init() call made on a mounted useEngine has settled, either
\* ready is true and error is null, or ready is false and error is not null,
\* and initializing is false; ready with an error is never the state, also
\* when the 5-second watchdog fired before the initialization chain finished
C22_EngineSettled ==
  /\ ue.phase = "yes"
  /\ ue.calls # <<>>
  /\ \A i \in 1..Len(ue.calls) : ue.calls[i].pc \in {"resolved", "caught"}

C22_InitOutcomeExclusive ==
  C22_EngineSettled =>
    /\ \/ ue.ready /\ ue.error = ErrorNull
       \/ ~ue.ready /\ ue.error # ErrorNull
    /\ ~ue.initializing

\* C23: one useEngine instance has at most one sensor polling interval
\* active at any time, after any number of init() calls, and none after the
\* component has unmounted
C23_OneSensorPollingInterval ==
  /\ Cardinality(ue.intervals) <= 1
  /\ ue.phase = "gone" => ue.intervals = {}

\* C24: once a stopCollectors call that found the collectors running has
\* lowered isRunning, the collection interval is cleared and no sample is
\* still to be delivered, and every tool process spawned has been killed and
\* its reference cleared; a startCollectors call that raises isRunning again
\* leaves the interval it installed running
C24_StopLeavesNothingRunning ==
  /\ [](~state.isRunning =>
          /\ timers = {}
          /\ state.intervalId = 0
          /\ ~cb.pending.set
          /\ procs = {}
          /\ state.presentMonProcess = 0
          /\ state.lhmProcess = 0)
  /\ [][ (~state.isRunning /\ state'.isRunning) =>
           \E t \in timers' : t.id = state'.intervalId ]_vars

\* C25: a collection tick calls every callback that was in state.callbacks
\* when the tick started exactly once and in registration order, also when a
\* callback throws or calls its own unsubscribe function during the
\* delivery; a first call of the function returned by onTelemetry removes
\* the one registration it was returned for and every further call removes
\* nothing
C25_Fns(arr) == [k \in 1..Len(arr) |-> cb.subs[arr[k]].fn]

C25_Without(arr, r) == SelectSeq(arr, LAMBDA x : x # r)

C25_Among(arr, regs) == SelectSeq(arr, LAMBDA x : \E k \in 1..Len(regs) : regs[k] = x)

C25_DeliveryAndUnsubscribe ==
  /\ [](cb.tick.set => C25_Among(cb.tick.delivered, cb.tick.start) = cb.tick.start)
  /\ [][ \A r \in 1..Len(cb.subs) :
           (cb'.subs[r].calls = cb.subs[r].calls + 1 /\ cb'.tick = cb.tick /\ cb'.pending = cb.pending) =>
             C25_Fns(cb'.callbacks) =
               IF cb.subs[r].calls = 0
                 THEN C25_Fns(C25_Without(cb.callbacks, r))
                 ELSE C25_Fns(cb.callbacks) ]_vars

\* C26: the result of runPowerShellCommand has code 0 only if the platform is
\* not Windows (the simulated result) or the shell process exited with the
\* numeric exit code 0; a process that ended without a numeric exit code is
\* never reported with code 0
C26_CodeZeroMeansExitZero ==
  (finished /\ presult.code = 0) =>
    \/ ~isWindows
    \/ child.exited /\ child.exitCode = 0

\* C27: checkAdminRights always resolves, with the value of the first of the
\* probe's events: true only if the probe exited with code 0 before the
\* 3-second timer fired and before a spawn error, false on a spawn error, on
\* any other exit or when the timer fired first, which kills the probe; no
\* later event changes the value; off Windows it is true and no probe runs
C27_ProbeResolvesWithFirstEvent ==
  /\ []((host.phase # "up" /\ host.resolved) =>
          /\ host.first.event \in {"platform", "exit", "error", "timer"}
          /\ host.value <=>
                \/ host.first.event = "platform"
                \/ host.first.event = "exit" /\ host.first.code = 0
          /\ host.first.event = "platform" <=> ~isWindows
          /\ ~isWindows => ~host.childAlive /\ ~host.timerArmed /\ ~host.killed
          /\ host.first.event = "timer" => host.killed)
  /\ [][ (host.phase # "up" /\ host.resolved) =>
           host'.value = host.value /\ host'.first = host.first ]_vars
  /\ ((host.phase = "probing") ~> (host.phase # "up" /\ host.resolved))

\* on Windows the probe exited with code 0 first and the timer, which fired
\* later and killed the probe, left the answer true
C27_Witness ==
  /\ host.phase # "up"
  /\ isWindows
  /\ host.resolved
  /\ host.value
  /\ host.first = [event |-> "exit", code |-> 0]
  /\ host.killed
  /\ ~host.timerArmed

=============================================================================
